---- MODULE Spec2Model ----
(***************************************************************************)
(* Model of the charfinder core: text normalizer, similarity engine,       *)
(* exact matcher, fuzzy matcher, name cache and match router.              *)
(*                                                                         *)
(* A string is a sequence of characters; a character is an atom written    *)
(* as a TLA+ string.  A score is a reduced fraction <<n, d>>; the absent   *)
(* score (Python None) is the empty tuple.                                 *)
(***************************************************************************)
EXTENDS Integers, Sequences, FiniteSets, TLC

(***************************************************************************)
(* Bounds of the model.                                                    *)
(***************************************************************************)
\* longest query string drawn as an input
MaxQueryLen == 3
\* largest number of entries of a name cache handed in by the caller
MaxCache == 2
\* thresholds are the fractions k / ThresholdSteps, k in 0..ThresholdSteps
ThresholdSteps == 2
\* longest query string given to the router
MaxRouterQueryLen == 1
\* largest number of entries of a name cache given to the router
MaxRouterCache == 1
\* longest string given to compute_similarity
MaxSimLen == 3
\* number of router calls that run concurrently
NumInvocations == 2

(***************************************************************************)
(* Characters and strings.                                                 *)
(***************************************************************************)
None == <<"None">>

NoScore == <<>>

\* str.isspace on one character
IsSpace(c) == c = " "

\* code point order of the characters of the model (used by sorted())
CharOrd(c) ==
  CASE c = " " -> 32
    [] c = "A" -> 65
    [] c = "B" -> 66
    [] c = "E" -> 69
    [] c = "a" -> 97
    [] c = "b" -> 98
    [] c = "e" -> 101
    [] c = "E^" -> 201
    [] c = "e^" -> 233
    [] c = "^" -> 769
    [] OTHER -> 0

\* str.upper on one character
UpperChar(c) ==
  CASE c = "a" -> "A"
    [] c = "b" -> "B"
    [] c = "e" -> "E"
    [] c = "e^" -> "E^"
    [] OTHER -> c

RECURSIVE Upper(_)
Upper(s) == IF s = <<>> THEN <<>> ELSE <<UpperChar(Head(s))>> \o Upper(Tail(s))

\* canonical composition of a base character and a combining mark
Composed(base, mark) ==
  CASE base = "e" /\ mark = "^" -> "e^"
    [] base = "E" /\ mark = "^" -> "E^"
    [] OTHER -> ""

\* unicodedata.normalize("NFC", s): compose each base + combining mark pair
RECURSIVE NFC(_)
NFC(s) ==
  IF Len(s) < 2 THEN s
  ELSE IF Composed(s[1], s[2]) # ""
       THEN <<Composed(s[1], s[2])>> \o NFC(SubSeq(s, 3, Len(s)))
       ELSE <<s[1]>> \o NFC(Tail(s))

\* the normalization form configured in constants.py
UnicodeNormalize(s) == NFC(s)

\* normalize without the upper-casing
normalizeKeepCase(text) == UnicodeNormalize(text)

normalize(text) == Upper(UnicodeNormalize(text))

RECURSIVE LStrip(_)
LStrip(s) == IF s # <<>> /\ IsSpace(Head(s)) THEN LStrip(Tail(s)) ELSE s

RECURSIVE RStrip(_)
RStrip(s) ==
  IF s # <<>> /\ IsSpace(s[Len(s)]) THEN RStrip(SubSeq(s, 1, Len(s) - 1)) ELSE s

\* str.strip()
Strip(s) == RStrip(LStrip(s))

\* str.split(): the maximal runs of non-whitespace characters, in order
RECURSIVE SplitFrom(_, _)
SplitFrom(s, cur) ==
  IF s = <<>> THEN (IF cur = <<>> THEN <<>> ELSE <<cur>>)
  ELSE IF IsSpace(Head(s))
       THEN (IF cur = <<>> THEN <<>> ELSE <<cur>>) \o SplitFrom(Tail(s), <<>>)
       ELSE SplitFrom(Tail(s), Append(cur, Head(s)))

Split(s) == SplitFrom(s, <<>>)

Range(f) == {f[i] : i \in DOMAIN f}

\* set(s.split())
WordSet(s) == Range(Split(s))

\* Python `q in s` for strings
Contains(s, q) ==
  \E i \in 0..(Len(s) - Len(q)) : SubSeq(s, i + 1, i + Len(q)) = q

\* lexicographic order of two strings by code point
RECURSIVE StrLess(_, _)
StrLess(a, b) ==
  IF b = <<>> THEN FALSE
  ELSE IF a = <<>> THEN TRUE
  ELSE IF CharOrd(Head(a)) # CharOrd(Head(b)) THEN CharOrd(Head(a)) < CharOrd(Head(b))
  ELSE StrLess(Tail(a), Tail(b))

\* sorted(tokens): insertion of each token into the sorted rest
RECURSIVE InsertSorted(_, _)
InsertSorted(t, ts) ==
  IF ts = <<>> THEN <<t>>
  ELSE IF StrLess(Head(ts), t) THEN <<Head(ts)>> \o InsertSorted(t, Tail(ts))
  ELSE <<t>> \o ts

RECURSIVE SortTokens(_)
SortTokens(ts) ==
  IF ts = <<>> THEN <<>> ELSE InsertSorted(Head(ts), SortTokens(Tail(ts)))

\* " ".join(tokens)
RECURSIVE JoinSpace(_)
JoinSpace(ts) ==
  IF ts = <<>> THEN <<>>
  ELSE IF Len(ts) = 1 THEN Head(ts)
  ELSE Head(ts) \o <<" ">> \o JoinSpace(Tail(ts))

(***************************************************************************)
(* Scores: reduced fractions.                                              *)
(***************************************************************************)
RECURSIVE GCD(_, _)
GCD(a, b) == IF b = 0 THEN a ELSE GCD(b, a % b)

Frac(n, d) == IF n = 0 THEN <<0, 1>> ELSE <<n \div GCD(n, d), d \div GCD(n, d)>>

One == <<1, 1>>

Zero == <<0, 1>>

FLeq(x, y) == x[1] * y[2] <= y[1] * x[2]

FAdd(x, y) == Frac(x[1] * y[2] + y[1] * x[2], x[2] * y[2])

FMul(x, y) == Frac(x[1] * y[1], x[2] * y[2])

FMax(S) == CHOOSE x \in S : \A y \in S : FLeq(y, x)

FMin(S) == CHOOSE x \in S : \A y \in S : FLeq(x, y)

Max2(a, b) == IF a >= b THEN a ELSE b

(***************************************************************************)
(* Similarity engine (fuzzymatchlib.py).                                   *)
(***************************************************************************)
Min2(a, b) == IF a <= b THEN a ELSE b

\* number of positions i at which a[i] = b[i] (zip stops at the shorter one)
AlignedMatches(a, b) == Cardinality({i \in 1..Min2(Len(a), Len(b)) : a[i] = b[i]})

\* matches / max(len(a), len(b))
simple_ratio_of_first(a, b) ==
  IF Len(a) > 0 THEN Frac(Cardinality({i \in 1..Min2(Len(a), Len(b)) : a[i] = b[i]}), Len(a))
  ELSE Zero

simple_ratio(a, b) ==
  IF Max2(Len(a), Len(b)) > 0
  THEN Frac(AlignedMatches(a, b), Max2(Len(a), Len(b)))
  ELSE Zero

normalized_ratio(a, b) ==
  LET norm_a == Upper(UnicodeNormalize(a))
      norm_b == Upper(UnicodeNormalize(b))
  IN  IF Max2(Len(norm_a), Len(norm_b)) > 0
      THEN Frac(AlignedMatches(norm_a, norm_b), Max2(Len(norm_a), Len(norm_b)))
      ELSE Zero

\* length of a longest common subsequence
RECURSIVE LCS(_, _)
LCS(a, b) ==
  IF a = <<>> \/ b = <<>> THEN 0
  ELSE IF Head(a) = Head(b) THEN 1 + LCS(Tail(a), Tail(b))
  ELSE Max2(LCS(Tail(a), b), LCS(a, Tail(b)))

\* insertion/deletion distance
IndelDistance(a, b) == Len(a) + Len(b) - 2 * LCS(a, b)

\* normalized indel similarity: Levenshtein.ratio and rapidfuzz.fuzz.ratio / 100
IndelRatio(a, b) ==
  IF Len(a) + Len(b) = 0 THEN One
  ELSE Frac(Len(a) + Len(b) - IndelDistance(a, b), Len(a) + Len(b))

levenshtein_ratio(a, b) == IndelRatio(a, b)

token_sort_ratio_score(a, b) ==
  IndelRatio(JoinSpace(SortTokens(Split(a))), JoinSpace(SortTokens(Split(b))))

\* difflib: the blocks a[i+1..i+k] = b[j+1..j+k], k > 0
MatchingBlocks(a, b) ==
  {t \in (0..Len(a)) \X (0..Len(b)) \X (1..Max2(1, Min2(Len(a), Len(b)))) :
     /\ t[1] + t[3] <= Len(a)
     /\ t[2] + t[3] <= Len(b)
     /\ SubSeq(a, t[1] + 1, t[1] + t[3]) = SubSeq(b, t[2] + 1, t[2] + t[3])}

\* difflib find_longest_match: longest block, earliest in a, then earliest in b
LongestMatch(a, b) ==
  CHOOSE t \in MatchingBlocks(a, b) :
    \A u \in MatchingBlocks(a, b) :
      \/ u[3] < t[3]
      \/ u[3] = t[3] /\ u[1] > t[1]
      \/ u[3] = t[3] /\ u[1] = t[1] /\ u[2] >= t[2]

\* difflib get_matching_blocks: total size of the blocks found recursively
RECURSIVE SMMatches(_, _)
SMMatches(a, b) ==
  IF MatchingBlocks(a, b) = {} THEN 0
  ELSE LET t == LongestMatch(a, b)
       IN  t[3] + SMMatches(SubSeq(a, 1, t[1]), SubSeq(b, 1, t[2]))
                + SMMatches(SubSeq(a, t[1] + t[3] + 1, Len(a)),
                            SubSeq(b, t[2] + t[3] + 1, Len(b)))

\* difflib SequenceMatcher(None, a, b).ratio()
SequenceMatcherRatio(a, b) ==
  IF Len(a) + Len(b) = 0 THEN One
  ELSE Frac(2 * SMMatches(a, b), Len(a) + Len(b))

VALID_FUZZY_MATCH_MODES == {"single", "hybrid"}

VALID_EXACT_MATCH_MODES == {"substring", "word-subset"}

BaseAlgorithms ==
  <<"simple_ratio", "normalized_ratio", "levenshtein_ratio", "token_sort_ratio">>

\* FUZZY_HYBRID_WEIGHTS, in hundredths; they sum to 100
FUZZY_HYBRID_WEIGHTS ==
  [simple_ratio |-> 10, normalized_ratio |-> 20,
   levenshtein_ratio |-> 30, token_sort_ratio |-> 40]

BaseScore(name, a, b) ==
  CASE name = "simple_ratio" -> simple_ratio(a, b)
    [] name = "normalized_ratio" -> normalized_ratio(a, b)
    [] name = "levenshtein_ratio" -> levenshtein_ratio(a, b)
    [] name = "token_sort_ratio" -> token_sort_ratio_score(a, b)

RECURSIVE FSum(_)
FSum(xs) == IF xs = <<>> THEN Zero ELSE FAdd(Head(xs), FSum(Tail(xs)))

RECURSIVE FInsert(_, _)
FInsert(x, xs) ==
  IF xs = <<>> THEN <<x>>
  ELSE IF FLeq(Head(xs), x) THEN <<Head(xs)>> \o FInsert(x, Tail(xs))
  ELSE <<x>> \o xs

RECURSIVE FSort(_)
FSort(xs) == IF xs = <<>> THEN <<>> ELSE FInsert(Head(xs), FSort(Tail(xs)))

\* statistics.median of an even number of values: mean of the two middle ones
Median(xs) ==
  LET srt == FSort(xs)
      h == Len(xs) \div 2
  IN  IF Len(xs) % 2 = 1 THEN srt[h + 1]
      ELSE FMul(FAdd(srt[h], srt[h + 1]), <<1, 2>>)

\* outcome of a scoring call: a score, or the error it raised
Ok(x) == [err |-> "none", score |-> x]

Raise(e) == [err |-> e, score |-> NoScore]

\* the mean taken as a plain average of the four scores
hybrid_score_plain_mean(a, b, agg_fn) ==
  LET components == [i \in 1..4 |-> BaseScore(BaseAlgorithms[i], a, b)]
  IN  CASE agg_fn = "mean" -> Ok(FMul(FSum(components), <<1, 4>>))
        [] agg_fn = "median" -> Ok(Median(components))
        [] agg_fn = "max" -> Ok(FMax(Range(components)))
        [] agg_fn = "min" -> Ok(FMin(Range(components)))
        [] OTHER -> Raise("InvalidAgg")

hybrid_score(a, b, agg_fn) ==
  LET components == [i \in 1..4 |-> BaseScore(BaseAlgorithms[i], a, b)]
  IN  CASE agg_fn = "mean" ->
             Ok(FSum([i \in 1..4 |->
                       FMul(components[i],
                            Frac(FUZZY_HYBRID_WEIGHTS[BaseAlgorithms[i]], 100))]))
        [] agg_fn = "median" -> Ok(Median(components))
        [] agg_fn = "max" -> Ok(FMax(Range(components)))
        [] agg_fn = "min" -> Ok(FMin(Range(components)))
        [] OTHER -> Raise("InvalidAgg")

SUPPORTED_ALGORITHMS ==
  {"simple_ratio", "normalized_ratio", "levenshtein_ratio", "token_sort_ratio",
   "hybrid_score"}

\* FUZZY_ALGO_ALIASES: user-facing name -> internal name
FUZZY_ALGO_ALIASES ==
  [sequencematcher |-> "sequencematcher", rapidfuzz |-> "rapidfuzz",
   levenshtein |-> "levenshtein_ratio"]

\* str.casefold on the algorithm names of the model
CaseFold(name) ==
  CASE name = "Levenshtein" -> "levenshtein"
    [] name = "SIMPLE_RATIO" -> "simple_ratio"
    [] OTHER -> name

\* resolve_algorithm_name: the internal name, or None when it raises ValueError
resolve_algorithm_name(name) ==
  LET folded == CaseFold(name)
  IN  IF folded \in SUPPORTED_ALGORITHMS THEN folded
      ELSE IF folded \in DOMAIN FUZZY_ALGO_ALIASES THEN FUZZY_ALGO_ALIASES[folded]
      ELSE "None"

\* s1 == s2 after s1 = s1.strip().upper() and s2 = s2.strip().upper()
SameAsGiven(a, b) == a = b

SameAfterStripUpper(a, b) == Upper(Strip(a)) = Upper(Strip(b))

\* the dispatch of compute_similarity on the stripped, upper-cased strings
ScoreWith(resolved_algo, u1, u2, mode, agg_fn) ==
  IF mode = "hybrid" THEN hybrid_score(u1, u2, agg_fn)
  ELSE IF resolved_algo = "sequencematcher" THEN Ok(SequenceMatcherRatio(u1, u2))
  ELSE IF resolved_algo = "rapidfuzz" THEN Ok(IndelRatio(u1, u2))
  ELSE IF resolved_algo = "hybrid_score" THEN hybrid_score(u1, u2, "mean")
  ELSE Ok(BaseScore(resolved_algo, u1, u2))

compute_similarity(a, b, algorithm, mode, agg_fn) ==
  LET resolved_algo == resolve_algorithm_name(algorithm)
  IN  IF resolved_algo = "None" THEN Raise("InvalidAlgorithm")
      ELSE IF mode \notin VALID_FUZZY_MATCH_MODES THEN Raise("InvalidMode")
      ELSE IF SameAfterStripUpper(a, b) THEN Ok(One)
      ELSE ScoreWith(resolved_algo, Upper(Strip(a)), Upper(Strip(b)), mode, agg_fn)

(***************************************************************************)
(* The Unicode character database seen by the model: code points           *)
(* 1..MaxCodePoint, the name of each (unicodedata.name) and the alternate  *)
(* name field of UnicodeData.txt.                                          *)
(***************************************************************************)
\* sys.maxunicode of the model
MaxCodePoint == 4

\* unicodedata.name(chr(code), ""): the empty string for an unnamed code point
UnicodeName(code) ==
  CASE code % 4 = 1 -> <<"A">>
    [] code % 4 = 2 -> <<"B", " ", "A">>
    [] code % 4 = 3 -> <<>>
    [] code % 4 = 0 -> <<"A", "B">>

\* field 10 of the UnicodeData.txt line of the code point ("" when empty)
UnicodeDataAltField(code) ==
  CASE code % 4 = 1 -> <<"b">>
    [] code % 4 = 2 -> <<"a", " ", "B">>
    [] OTHER -> <<>>

CodePoints == 1..MaxCodePoint

\* load_alternate_names after a successful read: code point -> alternate name
ParsedAlternateNames ==
  [c \in {d \in CodePoints : Strip(UnicodeDataAltField(d)) # <<>>} |->
     Strip(UnicodeDataAltField(c))]

NoAlternateNames == [c \in {} |-> <<>>]

\* one cache entry of build_name_cache
CacheEntryAlternateAsIs(code, alternate_names) ==
  IF code \in DOMAIN alternate_names /\ alternate_names[code] # <<>>
  THEN [code |-> code, original |-> UnicodeName(code),
        normalized |-> normalize(UnicodeName(code)),
        alternate |-> alternate_names[code],
        alternate_normalized |-> alternate_names[code]]
  ELSE [code |-> code, original |-> UnicodeName(code),
        normalized |-> normalize(UnicodeName(code)),
        alternate |-> None, alternate_normalized |-> None]

CacheEntry(code, alternate_names) ==
  IF code \in DOMAIN alternate_names /\ alternate_names[code] # <<>>
  THEN [code |-> code, original |-> UnicodeName(code),
        normalized |-> normalize(UnicodeName(code)),
        alternate |-> alternate_names[code],
        alternate_normalized |-> normalize(alternate_names[code])]
  ELSE [code |-> code, original |-> UnicodeName(code),
        normalized |-> normalize(UnicodeName(code)),
        alternate |-> None, alternate_normalized |-> None]

\* the build loop of build_name_cache over code points from..MaxCodePoint
RECURSIVE BuildFrom(_, _)
BuildFrom(from, alternate_names) ==
  IF from > MaxCodePoint THEN <<>>
  ELSE IF UnicodeName(from) = <<>> THEN BuildFrom(from + 1, alternate_names)
  ELSE <<CacheEntry(from, alternate_names)>> \o BuildFrom(from + 1, alternate_names)

BuildCache(alternate_names) == BuildFrom(1, alternate_names)

(***************************************************************************)
(* Exact matcher and fuzzy matcher (core/matching.py), one cache entry at  *)
(* a time.                                                                 *)
(***************************************************************************)
\* Python truth value of names.get("alternate_normalized")
Truthy(alt_norm) == alt_norm # None /\ alt_norm # <<>>

MatchTuple(e, score) == [code |-> e.code, name |-> e.original, score |-> score]

\* substring mode: norm_query in norm_name or (alt_norm and norm_query in alt_norm)
SubstringMatchNameOnly(norm_query, norm_name, alt_norm) ==
  Contains(norm_name, norm_query)

SubstringMatch(norm_query, norm_name, alt_norm) ==
  Contains(norm_name, norm_query)
    \/ (Truthy(alt_norm) /\ Contains(alt_norm, norm_query))

\* word-subset mode: set(query words) <= set(name words) | set(alternate words)
WordSubsetMatchInOrder(norm_query, norm_name, alt_norm) ==
  LET name_words == IF Truthy(alt_norm)
                    THEN Split(norm_name) \o Split(alt_norm)
                    ELSE Split(norm_name)
  IN  \E i \in 0..(Len(name_words) - Len(Split(norm_query))) :
        SubSeq(name_words, i + 1, i + Len(Split(norm_query))) = Split(norm_query)

WordSubsetMatch(norm_query, norm_name, alt_norm) ==
  LET query_words == WordSet(norm_query)
      name_words == IF Truthy(alt_norm)
                    THEN WordSet(norm_name) \cup WordSet(alt_norm)
                    ELSE WordSet(norm_name)
  IN  query_words \subseteq name_words

\* body of the loop of find_exact_matches: "match", "skip" or "error"
ExactEntry(norm_query, names, exact_match_mode) ==
  LET norm_name == names.normalized
      alt_norm == names.alternate_normalized
  IN  IF exact_match_mode = "substring"
      THEN IF SubstringMatch(norm_query, norm_name, alt_norm) THEN "match" ELSE "skip"
      ELSE IF exact_match_mode = "word-subset"
      THEN IF WordSubsetMatch(norm_query, norm_name, alt_norm) THEN "match" ELSE "skip"
      ELSE "error"

\* max(filter(None, [score1, score2]), default=None): filter drops None and 0.0
MaxFiltered(score1, score2) ==
  LET kept == {x \in {score1, score2} : x # NoScore /\ x # Zero}
  IN  IF kept = {} THEN NoScore ELSE FMax(kept)

\* the test that keeps a scored entry: score >= context.threshold
KeepScoreReversed(score, threshold) == FLeq(score, threshold)

KeepScore(score, threshold) == FLeq(threshold, score)

\* body of the loop of find_fuzzy_matches
FuzzyEntry(norm_query, names, ctx) ==
  LET r1 == compute_similarity(norm_query, names.normalized,
                               ctx.fuzzy_algo, ctx.match_mode, ctx.agg_fn)
      r2 == IF Truthy(names.alternate_normalized)
            THEN compute_similarity(norm_query, names.alternate_normalized,
                                    ctx.fuzzy_algo, ctx.match_mode, ctx.agg_fn)
            ELSE Ok(NoScore)
      score == MaxFiltered(r1.score, r2.score)
  IN  IF r1.err # "none" THEN [err |-> r1.err, keep |-> FALSE, score |-> NoScore]
      ELSE IF r2.err # "none" THEN [err |-> r2.err, keep |-> FALSE, score |-> NoScore]
      ELSE IF score = NoScore THEN [err |-> "none", keep |-> FALSE, score |-> NoScore]
      ELSE [err |-> "none", keep |-> KeepScore(score, ctx.threshold), score |-> score]

\* find_exact_matches as a function of its arguments (a valid mode)
RECURSIVE find_exact_matches(_, _, _)
find_exact_matches(norm_query, cache, exact_match_mode) ==
  IF cache = <<>> THEN <<>>
  ELSE (IF ExactEntry(norm_query, Head(cache), exact_match_mode) = "match"
        THEN <<MatchTuple(Head(cache), NoScore)>> ELSE <<>>)
       \o find_exact_matches(norm_query, Tail(cache), exact_match_mode)

\* find_fuzzy_matches as a function of its arguments (a context that raises nothing)
RECURSIVE find_fuzzy_matches(_, _, _)
find_fuzzy_matches(norm_query, cache, ctx) ==
  IF cache = <<>> THEN <<>>
  ELSE (IF FuzzyEntry(norm_query, Head(cache), ctx).keep
        THEN <<MatchTuple(Head(cache), FuzzyEntry(norm_query, Head(cache), ctx).score)>>
        ELSE <<>>)
       \o find_fuzzy_matches(norm_query, Tail(cache), ctx)

(***************************************************************************)
(* Inputs.                                                                 *)
(***************************************************************************)
StringsUpTo(alphabet, n) == UNION {[1..k -> alphabet] : k \in 0..n}

QueryAlphabet == {"a", "B", " "}

Queries == StringsUpTo(QueryAlphabet, MaxQueryLen)

Thresholds == {Frac(k, ThresholdSteps) : k \in 0..ThresholdSteps}

AlgorithmNames ==
  {"sequencematcher", "rapidfuzz", "Levenshtein", "simple_ratio", "normalized_ratio",
   "levenshtein_ratio", "token_sort_ratio", "hybrid_score", "bogus"}

MatchModes == {"single", "hybrid", "bogus"}

ExactModes == {"substring", "word-subset", "bogus"}

AggFns == {"mean", "median", "max", "min", "bogus"}

\* entries a caller can put in a cache: those of a build with and without
\* alternate names
EntryPool ==
  Range(BuildCache(ParsedAlternateNames)) \cup Range(BuildCache(NoAlternateNames))

\* dict[str, dict]: insertion-ordered, one entry per character
Caches ==
  {c \in StringsUpTo(EntryPool, MaxCache) :
     \A i, j \in DOMAIN c : i # j => c[i].code # c[j].code}

\* the queries and algorithm names given to the router
RouterQueries == StringsUpTo({"a", " "}, MaxRouterQueryLen)

RouterAlgorithmNames == {"Levenshtein", "simple_ratio", "bogus"}

RouterCaches == {c \in Caches : Len(c) <= MaxRouterCache}

\* json.dump of a cache: one <<key, members>> pair per character, members being
\* the <<name, value>> pairs of the fields the entry holds
JsonDump(cache) ==
  [i \in DOMAIN cache |->
     <<cache[i].code,
       <<<<"original", cache[i].original>>, <<"normalized", cache[i].normalized>>>>
         \o (IF cache[i].alternate = None THEN <<>>
             ELSE <<<<"alternate", cache[i].alternate>>>>)
         \o (IF cache[i].alternate_normalized = None THEN <<>>
             ELSE <<<<"alternate_normalized", cache[i].alternate_normalized>>>>)>>]

\* members.get(name): None when the object has no such member
JsonGet(members, name) ==
  IF \E j \in DOMAIN members : members[j][1] = name
  THEN members[CHOOSE j \in DOMAIN members : members[j][1] = name][2]
  ELSE None

\* json.load of a document written by json.dump
JsonLoad(doc) ==
  [i \in DOMAIN doc |->
     [code |-> doc[i][1],
      original |-> JsonGet(doc[i][2], "original"),
      normalized |-> JsonGet(doc[i][2], "normalized"),
      alternate |-> JsonGet(doc[i][2], "alternate"),
      alternate_normalized |-> JsonGet(doc[i][2], "alternate_normalized")]]

\* the cache file: absent, holding the JSON of a complete mapping, or holding
\* the beginning of a JSON document that a failed write left behind
NoFile == [exists |-> FALSE, valid |-> FALSE, content |-> <<>>]

File(cache) == [exists |-> TRUE, valid |-> TRUE, content |-> JsonDump(cache)]

TruncatedFile == [exists |-> TRUE, valid |-> FALSE, content |-> <<>>]

(***************************************************************************)
(* State.                                                                  *)
(***************************************************************************)
VARIABLES
  pc,             \* position of the call in progress
  caller,         \* entry point of the call: "router", "exact" or "fuzzy"
  query,          \* the query argument
  cfg,            \* SearchConfig / FuzzyMatchContext of the call
  cacheFile,      \* the cache file at the configured path
  dataFile,       \* whether the local UnicodeData.txt exists
  name_cache,     \* the cache scanned by the call
  norm_query,
  resolved_algo,
  exact_matches,
  fuzzy_matches,
  fuzzy_executed,
  idx,            \* next cache entry of the running scan
  result,         \* the returned match list
  error,          \* the error raised by the call, "none" if none
  scanned,        \* number of cache entries visited by the call so far
  cacheAccess,    \* how the call obtained its cache
  diskAtCall,     \* <<cacheFile, dataFile>> when the call started
  history,        \* the positions the call has gone through, in order
  force_rebuild,  \* the force_rebuild argument of build_name_cache
  alternate_names, \* the table returned by load_alternate_names
  messages,       \* the kinds of message echoed by the call
  s1,             \* first argument of compute_similarity
  s2,             \* second argument of compute_similarity
  similarity,     \* the value compute_similarity returned
  shared,         \* the name cache a host shares among concurrent router calls
  inv,            \* the local state of each concurrent router call
  lines           \* the lines the find_chars generator has yielded so far

vars == <<pc, caller, query, cfg, cacheFile, dataFile, name_cache, norm_query,
          resolved_algo, exact_matches, fuzzy_matches, fuzzy_executed, idx,
          result, error, scanned, cacheAccess, diskAtCall, history,
          force_rebuild, alternate_names, messages, s1, s2, similarity,
          shared, inv, lines>>

disk == <<cacheFile, dataFile>>

build == <<force_rebuild, alternate_names, messages>>

sim == <<s1, s2, similarity>>

conc == <<shared, inv>>

locals == <<name_cache, norm_query, resolved_algo, exact_matches, fuzzy_matches,
            fuzzy_executed, idx, result, error, scanned, cacheAccess>>

NoConfig ==
  [fuzzy |-> FALSE, threshold |-> Zero, has_cache |-> FALSE, name_cache |-> <<>>,
   fuzzy_algo |-> "sequencematcher", fuzzy_match_mode |-> "single",
   exact_match_mode |-> "word-subset", agg_fn |-> "mean", prefer_fuzzy |-> FALSE]

\* the concurrent router calls
Invocations == 1..NumInvocations

\* the local state of a router call that is not running
IdleInvocation ==
  [pc |-> "idle", query |-> <<>>, cfg |-> NoConfig, uses_shared |-> FALSE,
   name_cache |-> <<>>, norm_query |-> <<>>, resolved_algo |-> "None",
   exact_matches |-> <<>>, fuzzy_matches |-> <<>>, fuzzy_executed |-> FALSE,
   idx |-> 0, result |-> <<>>, error |-> "none",
   alternate_names |-> NoAlternateNames, disk_at_call |-> <<NoFile, FALSE>>,
   read_in_write |-> FALSE]

Init ==
  /\ pc = "idle"
  /\ caller = "none"
  /\ query = <<>>
  /\ cfg = NoConfig
  /\ cacheFile = NoFile
  /\ dataFile = FALSE
  /\ name_cache = <<>>
  /\ norm_query = <<>>
  /\ resolved_algo = "None"
  /\ exact_matches = <<>>
  /\ fuzzy_matches = <<>>
  /\ fuzzy_executed = FALSE
  /\ idx = 0
  /\ result = <<>>
  /\ error = "none"
  /\ scanned = 0
  /\ cacheAccess = "none"
  /\ diskAtCall = <<cacheFile, dataFile>>
  /\ history = <<>>
  /\ force_rebuild = FALSE
  /\ alternate_names = NoAlternateNames
  /\ messages = {}
  /\ s1 = <<>>
  /\ s2 = <<>>
  /\ similarity = NoScore
  /\ shared = <<>>
  /\ inv = [i \in Invocations |-> IdleInvocation]
  /\ lines = <<>>

\* the local state of a call that has just started
FreshLocals ==
  /\ name_cache' = <<>>
  /\ norm_query' = <<>>
  /\ resolved_algo' = "None"
  /\ exact_matches' = <<>>
  /\ fuzzy_matches' = <<>>
  /\ fuzzy_executed' = FALSE
  /\ idx' = 0
  /\ result' = <<>>
  /\ error' = "none"
  /\ scanned' = 0
  /\ cacheAccess' = "none"
  /\ alternate_names' = NoAlternateNames
  /\ messages' = {}
  /\ s1' = <<>>
  /\ s2' = <<>>
  /\ similarity' = NoScore
  /\ lines' = <<>>

\* history records every change of position of the running call
Track ==
  history' = IF pc' = pc THEN history
             ELSE IF pc' = "idle" THEN <<>>
             ELSE IF pc = "idle" THEN <<pc'>>
             ELSE Append(history, pc')

(***************************************************************************)
(* Match router (core/finders.py).                                         *)
(***************************************************************************)
\* a caller invokes _resolve_matches(q, c)
CallRouter(q, c) ==
  /\ pc = "idle"
  /\ pc' = "validate"
  /\ caller' = "router"
  /\ query' = q
  /\ cfg' = c
  /\ diskAtCall' = disk
  /\ force_rebuild' = FALSE
  /\ FreshLocals
  /\ UNCHANGED <<disk, conc>>
  /\ Track

Fail(e) ==
  /\ pc' = "error"
  /\ error' = e

\* not query.strip()
QueryIsEmptyUnstripped(q) == q = <<>>

QueryIsEmpty(q) == Strip(q) = <<>>

\* _validate_query
Validate ==
  /\ pc = "validate"
  /\ IF QueryIsEmpty(query) THEN Fail("EmptyQuery")
     ELSE IF cfg.fuzzy_match_mode \notin VALID_FUZZY_MATCH_MODES THEN Fail("InvalidMode")
     ELSE pc' = "resolve" /\ error' = error
  /\ UNCHANGED <<caller, query, cfg, disk, name_cache, norm_query, resolved_algo,
                 exact_matches, fuzzy_matches, fuzzy_executed, idx, result, scanned,
                 cacheAccess, diskAtCall, build, sim, lines, conc>>
  /\ Track

\* resolved_algo = resolve_algorithm_name(config.fuzzy_algo)
ResolveAlgo ==
  /\ pc = "resolve"
  /\ IF resolve_algorithm_name(cfg.fuzzy_algo) = "None"
     THEN Fail("InvalidAlgorithm") /\ resolved_algo' = resolved_algo
     ELSE /\ pc' = "cache"
          /\ error' = error
          /\ resolved_algo' = resolve_algorithm_name(cfg.fuzzy_algo)
  /\ UNCHANGED <<caller, query, cfg, disk, name_cache, norm_query,
                 exact_matches, fuzzy_matches, fuzzy_executed, idx, result, scanned,
                 cacheAccess, diskAtCall, build, sim, lines, conc>>
  /\ Track

\* name_cache = config.name_cache or build_name_cache(...): a supplied cache
\* that is not empty is used as it is, otherwise build_name_cache is entered
ObtainCache ==
  /\ pc = "cache"
  /\ IF cfg.has_cache /\ cfg.name_cache # <<>>
     THEN /\ name_cache' = cfg.name_cache
          /\ cacheAccess' = "supplied"
          /\ norm_query' = normalize(query)
          /\ idx' = 1
          /\ pc' = "exact"
     ELSE /\ pc' = "load"
          /\ UNCHANGED <<name_cache, cacheAccess, norm_query, idx>>
  /\ UNCHANGED <<caller, query, cfg, disk, resolved_algo, exact_matches, fuzzy_matches,
                 fuzzy_executed, result, error, scanned, diskAtCall, build, sim, lines, conc>>
  /\ Track

(***************************************************************************)
(* Name cache (core/name_cache.py, core/unicode_data_loader.py).            *)
(***************************************************************************)
\* build_name_cache returns cache; the router goes on with normalize(query)
BuildReturns(cache, access) ==
  /\ name_cache' = cache
  /\ cacheAccess' = access
  /\ IF caller = "cache"
     THEN pc' = "done" /\ UNCHANGED <<norm_query, idx>>
     ELSE pc' = "exact" /\ norm_query' = normalize(query) /\ idx' = 1

\* an exception leaves build_name_cache
BuildRaises(e) ==
  /\ Fail(e)
  /\ UNCHANGED <<name_cache, cacheAccess, norm_query, idx>>

\* if not force_rebuild and path.exists()
UseCacheFileIgnoringForce(force, file) == file.exists

UseCacheFile(force, file) == ~force /\ file.exists

\* the load branch: json.load(f) of the file at the configured path
LoadCacheFile ==
  /\ pc = "load"
  /\ IF UseCacheFile(force_rebuild, cacheFile)
     THEN \E readable \in BOOLEAN :
            IF ~readable THEN BuildRaises("OSError") /\ UNCHANGED messages
            ELSE IF ~cacheFile.valid
            THEN BuildRaises("JSONDecodeError") /\ UNCHANGED messages
            ELSE /\ BuildReturns(JsonLoad(cacheFile.content), "loaded")
                 /\ messages' = messages \cup {"Loaded Unicode name cache"}
                 /\ UNCHANGED error
     ELSE /\ pc' = "alternates"
          /\ messages' = messages \cup {"Rebuilding Unicode name cache"}
          /\ UNCHANGED <<name_cache, cacheAccess, norm_query, idx, error>>
  /\ UNCHANGED <<caller, query, cfg, disk, resolved_algo, exact_matches, fuzzy_matches,
                 fuzzy_executed, result, scanned, diskAtCall, force_rebuild,
                 alternate_names, sim, lines, conc>>
  /\ Track

\* outcomes of urlopen + read + decode + write_text, and of read_text
DownloadOutcomes == {"ok", "failed", "undecodable"}

ReadOutcomes == {"ok", "unreadable", "undecodable"}

\* load_alternate_names: download UnicodeData.txt when the local file is
\* missing, else read the local file; only URLError, TimeoutError and OSError
\* of the download branch are caught
LoadAlternateNames ==
  /\ pc = "alternates"
  /\ IF ~dataFile
     THEN \E download \in DownloadOutcomes :
            CASE download = "ok" ->
                   /\ dataFile' = TRUE
                   /\ alternate_names' = ParsedAlternateNames
                   /\ messages' = messages \cup {"Downloaded UnicodeData.txt"}
                   /\ pc' = "scan"
                   /\ UNCHANGED error
              [] download = "failed" ->
                   /\ alternate_names' = NoAlternateNames
                   /\ messages' = messages \cup {"Could not download UnicodeData.txt"}
                   /\ pc' = "scan"
                   /\ UNCHANGED <<dataFile, error>>
              [] download = "undecodable" ->
                   /\ Fail("UnicodeDecodeError")
                   /\ UNCHANGED <<dataFile, alternate_names, messages>>
     ELSE \E read \in ReadOutcomes :
            CASE read = "ok" ->
                   /\ alternate_names' = ParsedAlternateNames
                   /\ messages' = messages \cup {"Loaded UnicodeData.txt"}
                   /\ pc' = "scan"
                   /\ UNCHANGED <<dataFile, error>>
              [] read = "unreadable" ->
                   /\ Fail("OSError")
                   /\ UNCHANGED <<dataFile, alternate_names, messages>>
              [] read = "undecodable" ->
                   /\ Fail("UnicodeDecodeError")
                   /\ UNCHANGED <<dataFile, alternate_names, messages>>
  /\ UNCHANGED <<caller, query, cfg, cacheFile, name_cache, norm_query, resolved_algo,
                 exact_matches, fuzzy_matches, fuzzy_executed, idx, result, scanned,
                 cacheAccess, diskAtCall, force_rebuild, sim, lines, conc>>
  /\ Track

\* the loop over range(sys.maxunicode + 1) that fills cache
ScanCodePoints ==
  /\ pc = "scan"
  /\ name_cache' = BuildCache(alternate_names)
  /\ pc' = "persist"
  /\ UNCHANGED <<caller, query, cfg, disk, norm_query, resolved_algo, exact_matches,
                 fuzzy_matches, fuzzy_executed, idx, result, error, scanned,
                 cacheAccess, diskAtCall, build, sim, lines, conc>>
  /\ Track

\* outcomes of mkdir + open("w") + json.dump: the file written, an OSError
\* before the file was opened, an OSError after it was opened for writing
PersistOutcomes == {"written", "failed", "truncated"}

\* the file left by an attempt to write cache
PersistedFile(outcome, cache, file) ==
  CASE outcome = "written" -> File(cache)
    [] outcome = "failed" -> file
    [] outcome = "truncated" -> TruncatedFile

\* except OSError: every failure of mkdir, open and json.dump is caught, so no
\* outcome of the write leaves build_name_cache as an exception
PersistRaisesOnFailure(outcome) == outcome # "written"

PersistRaises(outcome) == FALSE

\* try: write cache to disk; except OSError: report; return cache
PersistCache ==
  /\ pc = "persist"
  /\ \E outcome \in PersistOutcomes :
       /\ cacheFile' = PersistedFile(outcome, name_cache, cacheFile)
       /\ IF PersistRaises(outcome)
          THEN BuildRaises("OSError") /\ UNCHANGED messages
          ELSE /\ messages' = messages \cup {IF outcome = "written" THEN "Cache written"
                                             ELSE "Failed to write cache"}
               /\ BuildReturns(name_cache, "built")
               /\ UNCHANGED error
  /\ UNCHANGED <<caller, query, cfg, dataFile, resolved_algo, exact_matches,
                 fuzzy_matches, fuzzy_executed, result, scanned, diskAtCall,
                 force_rebuild, alternate_names, sim, lines, conc>>
  /\ Track

\* one iteration of the loop of find_exact_matches
ExactStep ==
  /\ pc = "exact"
  /\ idx <= Len(name_cache)
  /\ scanned' = scanned + 1
  /\ LET r == ExactEntry(norm_query, name_cache[idx], cfg.exact_match_mode)
     IN  IF r = "error"
         THEN Fail("InvalidExactMode") /\ UNCHANGED <<exact_matches, idx>>
         ELSE /\ exact_matches' = IF r = "match"
                                  THEN Append(exact_matches, MatchTuple(name_cache[idx], NoScore))
                                  ELSE exact_matches
              /\ idx' = idx + 1
              /\ UNCHANGED <<pc, error>>
  /\ UNCHANGED <<caller, query, cfg, disk, name_cache, norm_query, resolved_algo,
                 fuzzy_matches, fuzzy_executed, result, cacheAccess, diskAtCall, build, sim, lines, conc>>
  /\ Track

\* run_fuzzy = config.fuzzy and (config.prefer_fuzzy or not exact_matches)
RunFuzzyFallbackOnly(c, exact) == c.fuzzy /\ exact = <<>>

RunFuzzyWheneverEnabled(c, exact) == c.fuzzy

RunFuzzy(c, exact) == c.fuzzy /\ (c.prefer_fuzzy \/ exact = <<>>)

\* find_exact_matches returns; the router decides whether fuzzy matching runs
ExactReturn ==
  /\ pc = "exact"
  /\ idx > Len(name_cache)
  /\ IF caller = "exact"
     THEN /\ pc' = "done"
          /\ result' = exact_matches
          /\ UNCHANGED <<fuzzy_executed, idx>>
     ELSE IF RunFuzzy(cfg, exact_matches)
     THEN /\ pc' = "fuzzy"
          /\ fuzzy_executed' = TRUE
          /\ idx' = 1
          /\ UNCHANGED result
     ELSE /\ pc' = "combine"
          /\ UNCHANGED <<fuzzy_executed, idx, result>>
  /\ UNCHANGED <<caller, query, cfg, disk, name_cache, norm_query, resolved_algo,
                 exact_matches, fuzzy_matches, error, scanned, cacheAccess, diskAtCall, build, sim, lines, conc>>
  /\ Track

\* FuzzyMatchContext built by the router / passed by a direct caller
Context ==
  [threshold |-> cfg.threshold, fuzzy_algo |-> resolved_algo,
   match_mode |-> cfg.fuzzy_match_mode, agg_fn |-> cfg.agg_fn]

\* a match inserted so that the list stays sorted by descending score
AddMatchByScore(matches, m) ==
  LET pos == Cardinality({i \in DOMAIN matches : FLeq(m.score, matches[i].score)})
  IN  SubSeq(matches, 1, pos) \o <<m>> \o SubSeq(matches, pos + 1, Len(matches))

\* matches.append(...)
AddMatch(matches, m) == Append(matches, m)

\* one iteration of the loop of find_fuzzy_matches
FuzzyStep ==
  /\ pc = "fuzzy"
  /\ idx <= Len(name_cache)
  /\ scanned' = scanned + 1
  /\ LET r == FuzzyEntry(norm_query, name_cache[idx], Context)
     IN  IF r.err # "none"
         THEN Fail(r.err) /\ UNCHANGED <<fuzzy_matches, idx>>
         ELSE /\ fuzzy_matches' = IF r.keep
                                  THEN AddMatch(fuzzy_matches, MatchTuple(name_cache[idx], r.score))
                                  ELSE fuzzy_matches
              /\ idx' = idx + 1
              /\ UNCHANGED <<pc, error>>
  /\ UNCHANGED <<caller, query, cfg, disk, name_cache, norm_query, resolved_algo,
                 exact_matches, fuzzy_executed, result, cacheAccess, diskAtCall, build, sim, lines, conc>>
  /\ Track

\* find_fuzzy_matches returns
FuzzyReturn ==
  /\ pc = "fuzzy"
  /\ idx > Len(name_cache)
  /\ IF caller = "fuzzy"
     THEN pc' = "done" /\ result' = fuzzy_matches
     ELSE pc' = "combine" /\ UNCHANGED result
  /\ UNCHANGED <<caller, query, cfg, disk, name_cache, norm_query, resolved_algo,
                 exact_matches, fuzzy_matches, fuzzy_executed, idx, error, scanned,
                 cacheAccess, diskAtCall, build, sim, lines, conc>>
  /\ Track

\* all_matches = exact_matches + fuzzy_matches
CombineMatchesDeduplicated(exact, fuzzy) ==
  exact \o SelectSeq(fuzzy, LAMBDA m : \A i \in DOMAIN exact : exact[i].code # m.code)

CombineMatchesFuzzyFirst(exact, fuzzy) == fuzzy \o exact

CombineMatches(exact, fuzzy) == exact \o fuzzy

\* the matches are combined; return all_matches, fuzzy_executed
Combine ==
  /\ pc = "combine"
  /\ result' = CombineMatches(exact_matches, fuzzy_matches)
  /\ pc' = "done"
  /\ UNCHANGED <<caller, query, cfg, disk, name_cache, norm_query, resolved_algo,
                 exact_matches, fuzzy_matches, fuzzy_executed, idx, error, scanned,
                 cacheAccess, diskAtCall, build, sim, lines, conc>>
  /\ Track

\* the caller takes the result or the error; nothing but the files outlives
\* the call
Return ==
  /\ pc \in {"done", "error"}
  /\ pc' = "idle"
  /\ caller' = "none"
  /\ query' = <<>>
  /\ cfg' = NoConfig
  /\ diskAtCall' = disk
  /\ force_rebuild' = FALSE
  /\ FreshLocals
  /\ UNCHANGED <<disk, conc>>
  /\ Track

(***************************************************************************)
(* Direct calls of the two matchers.                                       *)
(***************************************************************************)
\* find_exact_matches(nq, cache, mode)
CallExact(nq, cache, mode) ==
  /\ pc = "idle"
  /\ pc' = "exact"
  /\ caller' = "exact"
  /\ query' = nq
  /\ cfg' = [NoConfig EXCEPT !.has_cache = TRUE, !.name_cache = cache,
                             !.exact_match_mode = mode]
  /\ diskAtCall' = disk
  /\ name_cache' = cache
  /\ norm_query' = nq
  /\ resolved_algo' = "None"
  /\ exact_matches' = <<>>
  /\ fuzzy_matches' = <<>>
  /\ fuzzy_executed' = FALSE
  /\ idx' = 1
  /\ result' = <<>>
  /\ error' = "none"
  /\ scanned' = 0
  /\ cacheAccess' = "supplied"
  /\ UNCHANGED <<disk, build, sim, lines, conc>>
  /\ Track

\* find_fuzzy_matches(nq, cache, context)
CallFuzzy(nq, cache, threshold, algo, mode, agg) ==
  /\ pc = "idle"
  /\ pc' = "fuzzy"
  /\ caller' = "fuzzy"
  /\ query' = nq
  /\ cfg' = [NoConfig EXCEPT !.has_cache = TRUE, !.name_cache = cache, !.fuzzy = TRUE,
                             !.threshold = threshold, !.fuzzy_algo = algo,
                             !.fuzzy_match_mode = mode, !.agg_fn = agg]
  /\ diskAtCall' = disk
  /\ name_cache' = cache
  /\ norm_query' = nq
  /\ resolved_algo' = algo
  /\ exact_matches' = <<>>
  /\ fuzzy_matches' = <<>>
  /\ fuzzy_executed' = TRUE
  /\ idx' = 1
  /\ result' = <<>>
  /\ error' = "none"
  /\ scanned' = 0
  /\ cacheAccess' = "supplied"
  /\ UNCHANGED <<disk, build, sim, lines, conc>>
  /\ Track

\* build_name_cache(force_rebuild=force)
CallBuild(force) ==
  /\ pc = "idle"
  /\ pc' = "load"
  /\ caller' = "cache"
  /\ query' = <<>>
  /\ cfg' = NoConfig
  /\ diskAtCall' = disk
  /\ force_rebuild' = force
  /\ FreshLocals
  /\ UNCHANGED <<disk, conc>>
  /\ Track

(***************************************************************************)
(* Direct calls of compute_similarity (fuzzymatchlib.py).                  *)
(***************************************************************************)
\* compute_similarity(a, b, algorithm, mode, agg_fn)
CallSimilarity(a, b, algorithm, mode, agg_fn) ==
  /\ pc = "idle"
  /\ pc' = "similarity"
  /\ caller' = "similarity"
  /\ query' = <<>>
  /\ cfg' = [NoConfig EXCEPT !.fuzzy_algo = algorithm, !.fuzzy_match_mode = mode,
                             !.agg_fn = agg_fn]
  /\ diskAtCall' = disk
  /\ force_rebuild' = FALSE
  /\ name_cache' = <<>>
  /\ norm_query' = <<>>
  /\ resolved_algo' = "None"
  /\ exact_matches' = <<>>
  /\ fuzzy_matches' = <<>>
  /\ fuzzy_executed' = FALSE
  /\ idx' = 0
  /\ result' = <<>>
  /\ error' = "none"
  /\ scanned' = 0
  /\ cacheAccess' = "none"
  /\ alternate_names' = NoAlternateNames
  /\ messages' = {}
  /\ s1' = a
  /\ s2' = b
  /\ similarity' = NoScore
  /\ UNCHANGED <<disk, lines, conc>>
  /\ Track

\* the name is resolved, the mode validated, and identical strings return 1.0
CheckSimilarity ==
  /\ pc = "similarity"
  /\ IF resolve_algorithm_name(cfg.fuzzy_algo) = "None"
     THEN Fail("InvalidAlgorithm") /\ UNCHANGED <<resolved_algo, similarity>>
     ELSE IF cfg.fuzzy_match_mode \notin VALID_FUZZY_MATCH_MODES
     THEN /\ Fail("InvalidMode")
          /\ resolved_algo' = resolve_algorithm_name(cfg.fuzzy_algo)
          /\ UNCHANGED similarity
     ELSE /\ resolved_algo' = resolve_algorithm_name(cfg.fuzzy_algo)
          /\ UNCHANGED error
          /\ IF SameAfterStripUpper(s1, s2)
             THEN pc' = "done" /\ similarity' = One
             ELSE pc' = "score" /\ UNCHANGED similarity
  /\ UNCHANGED <<caller, query, cfg, disk, name_cache, norm_query, exact_matches,
                 fuzzy_matches, fuzzy_executed, idx, result, scanned, cacheAccess,
                 diskAtCall, build, s1, s2, lines, conc>>
  /\ Track

\* the hybrid score or the resolved algorithm is computed
ScoreSimilarity ==
  /\ pc = "score"
  /\ LET r == ScoreWith(resolved_algo, Upper(Strip(s1)), Upper(Strip(s2)),
                        cfg.fuzzy_match_mode, cfg.agg_fn)
     IN  IF r.err # "none"
         THEN Fail(r.err) /\ UNCHANGED similarity
         ELSE pc' = "done" /\ similarity' = r.score /\ UNCHANGED error
  /\ UNCHANGED <<caller, query, cfg, disk, name_cache, norm_query, resolved_algo,
                 exact_matches, fuzzy_matches, fuzzy_executed, idx, result, scanned,
                 cacheAccess, diskAtCall, build, s1, s2, lines, conc>>
  /\ Track

\* normalize(text)
CallNormalize(text) ==
  /\ pc = "idle"
  /\ pc' = "done"
  /\ caller' = "normalize"
  /\ query' = text
  /\ cfg' = NoConfig
  /\ diskAtCall' = disk
  /\ force_rebuild' = FALSE
  /\ name_cache' = <<>>
  /\ norm_query' = normalize(text)
  /\ resolved_algo' = "None"
  /\ exact_matches' = <<>>
  /\ fuzzy_matches' = <<>>
  /\ fuzzy_executed' = FALSE
  /\ idx' = 0
  /\ result' = <<>>
  /\ error' = "none"
  /\ scanned' = 0
  /\ cacheAccess' = "none"
  /\ alternate_names' = NoAlternateNames
  /\ messages' = {}
  /\ UNCHANGED <<disk, sim, lines, conc>>
  /\ Track

(***************************************************************************)
(* find_chars (core/finders.py): a generator function.  Calling it creates *)
(* the generator; its body, which starts with _resolve_matches, runs when  *)
(* the consumer asks for the first item, and is suspended at every yield.  *)
(***************************************************************************)
FIELD_WIDTHS == [code |-> 10, char |-> 3, name |-> 45]

\* format_result_header: the header line and the divider line, "-" * len(header)
format_result_header(has_score) ==
  IF has_score
  THEN <<[kind |-> "header", columns |-> <<"CODE", "CHAR", "NAME", "SCORE">>],
         [kind |-> "divider",
          width |-> FIELD_WIDTHS.code + 1 + FIELD_WIDTHS.char + 1
                      + FIELD_WIDTHS.name + 1 + 5]>>
  ELSE <<[kind |-> "header", columns |-> <<"CODE", "CHAR", "NAME">>],
         [kind |-> "divider",
          width |-> FIELD_WIDTHS.code + 1 + FIELD_WIDTHS.char + 1 + 4]>>

\* f"{score:>6.3f}": the score in thousandths, rounded
Thousandths(score) == (2000 * score[1] + score[2]) \div (2 * score[2])

\* format_result_row: the score column is empty for a null score
format_result_row(m) ==
  [kind |-> "row", code |-> m.code, name |-> m.name,
   score_str |-> IF m.score # NoScore THEN <<Thousandths(m.score)>> ELSE <<>>]

\* has_score=(matches[0].score is not None)
HasScore(matches) == matches[1].score # NoScore

\* where a call of find_chars leaves the generator: created, its body not begun
FirstPositionInBody == "validate"

FirstPosition == "created"

\* find_chars(q, c): the generator object is returned
CallFindChars(q, c) ==
  /\ pc = "idle"
  /\ pc' = FirstPosition
  /\ caller' = "find_chars"
  /\ query' = q
  /\ cfg' = c
  /\ diskAtCall' = disk
  /\ force_rebuild' = FALSE
  /\ FreshLocals
  /\ UNCHANGED <<disk, conc>>
  /\ Track

\* the first next(): the body starts, with the call of _resolve_matches
StartBody ==
  /\ pc = "created"
  /\ pc' = "validate"
  /\ UNCHANGED <<caller, query, cfg, disk, locals, diskAtCall, build, sim, lines, conc>>
  /\ Track

\* _resolve_matches has returned: the generator returns if there is no match,
\* else it yields the header line
YieldHeader ==
  /\ caller = "find_chars"
  /\ pc = "done"
  /\ IF result = <<>>
     THEN pc' = "exhausted" /\ UNCHANGED lines
     ELSE pc' = "yielded" /\ lines' = <<format_result_header(HasScore(result))[1]>>
  /\ UNCHANGED <<caller, query, cfg, disk, locals, diskAtCall, build, sim, conc>>
  /\ Track

\* a later next(): the divider line, then one row per match, then the end
NextLine ==
  /\ caller = "find_chars"
  /\ pc = "yielded"
  /\ IF Len(lines) = 1
     THEN pc' = pc /\ lines' = Append(lines, format_result_header(HasScore(result))[2])
     ELSE IF Len(lines) - 1 <= Len(result)
     THEN pc' = pc /\ lines' = Append(lines, format_result_row(result[Len(lines) - 1]))
     ELSE pc' = "exhausted" /\ UNCHANGED lines
  /\ UNCHANGED <<caller, query, cfg, disk, locals, diskAtCall, build, sim, conc>>
  /\ Track

\* the consumer drops the generator: before the first item, between two items,
\* at the end or after an error
DropGenerator ==
  /\ caller = "find_chars"
  /\ pc \in {"created", "yielded", "exhausted", "error"}
  /\ pc' = "idle"
  /\ caller' = "none"
  /\ query' = <<>>
  /\ cfg' = NoConfig
  /\ diskAtCall' = disk
  /\ force_rebuild' = FALSE
  /\ FreshLocals
  /\ UNCHANGED <<disk, conc>>
  /\ Track

(***************************************************************************)
(* Concurrent router calls that a host gives one shared name cache.  Each  *)
(* call has its own local variables; the calls meet at the shared cache,   *)
(* which they read entry by entry, and at the files.                       *)
(***************************************************************************)
\* the variables of the one-call-at-a-time model
sequential ==
  <<pc, caller, query, cfg, name_cache, norm_query, resolved_algo, exact_matches,
    fuzzy_matches, fuzzy_executed, idx, result, error, scanned, cacheAccess,
    diskAtCall, history, build, sim, lines>>

\* call i goes on with local state r
Step(i, r) == inv' = [inv EXCEPT ![i] = r]

\* the host builds or replaces the cache object it shares, between calls
HostShares(cache) ==
  /\ \A i \in Invocations : inv[i].pc = "idle"
  /\ shared' = cache
  /\ UNCHANGED <<inv, disk, sequential>>

\* call i of _resolve_matches(q, c), the configuration carrying the shared cache
\* or no cache
Invoke(i, q, c) ==
  /\ inv[i].pc = "idle"
  /\ Step(i, [IdleInvocation EXCEPT !.pc = "validate", !.query = q,
                                    !.cfg = IF c.has_cache
                                            THEN [c EXCEPT !.name_cache = shared]
                                            ELSE c,
                                    !.disk_at_call = disk])
  /\ UNCHANGED <<shared, disk, sequential>>

\* _validate_query and resolve_algorithm_name of call i
InvValidate(i) ==
  /\ inv[i].pc = "validate"
  /\ LET me == inv[i]
         resolved == resolve_algorithm_name(me.cfg.fuzzy_algo)
     IN  IF QueryIsEmpty(me.query)
         THEN Step(i, [me EXCEPT !.pc = "error", !.error = "EmptyQuery"])
         ELSE IF me.cfg.fuzzy_match_mode \notin VALID_FUZZY_MATCH_MODES
         THEN Step(i, [me EXCEPT !.pc = "error", !.error = "InvalidMode"])
         ELSE IF resolved = "None"
         THEN Step(i, [me EXCEPT !.pc = "error", !.error = "InvalidAlgorithm"])
         ELSE Step(i, [me EXCEPT !.pc = "cache", !.resolved_algo = resolved])
  /\ UNCHANGED <<shared, disk, sequential>>

\* call i enters find_exact_matches with the cache it obtained
StartsScan(me) ==
  [me EXCEPT !.pc = "exact", !.norm_query = normalize(me.query), !.idx = 1]

\* name_cache = config.name_cache or build_name_cache(...) of call i
InvObtainCache(i) ==
  /\ inv[i].pc = "cache"
  /\ LET me == inv[i]
     IN  IF me.cfg.has_cache /\ me.cfg.name_cache # <<>>
         THEN Step(i, StartsScan([me EXCEPT !.uses_shared = TRUE]))
         ELSE Step(i, [me EXCEPT !.pc = "load"])
  /\ UNCHANGED <<shared, disk, sequential>>

\* another call has the cache file open for writing
WrittenByAnother(i) == \E j \in Invocations \ {i} : inv[j].pc = "dump"

\* the load branch of build_name_cache in call i; read_in_write records that
\* the file was read while another call had it open for writing
InvLoadCacheFile(i) ==
  /\ inv[i].pc = "load"
  /\ LET me == inv[i]
     IN  IF UseCacheFile(FALSE, cacheFile)
         THEN \E readable \in BOOLEAN :
                IF ~readable
                THEN Step(i, [me EXCEPT !.pc = "error", !.error = "OSError"])
                ELSE IF ~cacheFile.valid
                THEN Step(i, [me EXCEPT !.pc = "error", !.error = "JSONDecodeError",
                                        !.read_in_write = WrittenByAnother(i)])
                ELSE Step(i, StartsScan([me EXCEPT !.name_cache =
                                                     JsonLoad(cacheFile.content),
                                                   !.read_in_write = WrittenByAnother(i)]))
         ELSE Step(i, [me EXCEPT !.pc = "alternates"])
  /\ UNCHANGED <<shared, disk, sequential>>

\* load_alternate_names in call i
InvLoadAlternateNames(i) ==
  /\ inv[i].pc = "alternates"
  /\ LET me == inv[i]
     IN  IF ~dataFile
         THEN \E download \in DownloadOutcomes :
                CASE download = "ok" ->
                       /\ dataFile' = TRUE
                       /\ Step(i, [me EXCEPT !.pc = "scan",
                                             !.alternate_names = ParsedAlternateNames])
                  [] download = "failed" ->
                       /\ UNCHANGED dataFile
                       /\ Step(i, [me EXCEPT !.pc = "scan"])
                  [] download = "undecodable" ->
                       /\ UNCHANGED dataFile
                       /\ Step(i, [me EXCEPT !.pc = "error",
                                             !.error = "UnicodeDecodeError"])
         ELSE /\ UNCHANGED dataFile
              /\ \E read \in ReadOutcomes :
                   CASE read = "ok" ->
                          Step(i, [me EXCEPT !.pc = "scan",
                                             !.alternate_names = ParsedAlternateNames])
                     [] read = "unreadable" ->
                          Step(i, [me EXCEPT !.pc = "error", !.error = "OSError"])
                     [] read = "undecodable" ->
                          Step(i, [me EXCEPT !.pc = "error",
                                             !.error = "UnicodeDecodeError"])
  /\ UNCHANGED <<shared, cacheFile, sequential>>

\* the code point loop of build_name_cache in call i
InvScanCodePoints(i) ==
  /\ inv[i].pc = "scan"
  /\ Step(i, [inv[i] EXCEPT !.pc = "open",
                            !.name_cache = BuildCache(inv[i].alternate_names)])
  /\ UNCHANGED <<shared, disk, sequential>>

\* path.parent.mkdir(...) and path.open("w"): opening the file empties it
InvOpenForWrite(i) ==
  /\ inv[i].pc = "open"
  /\ \E opened \in BOOLEAN :
       IF opened
       THEN cacheFile' = TruncatedFile /\ Step(i, [inv[i] EXCEPT !.pc = "dump"])
       ELSE UNCHANGED cacheFile /\ Step(i, StartsScan(inv[i]))
  /\ UNCHANGED <<shared, dataFile, sequential>>

\* number of members written for a cache: a measure of the length of its JSON
JsonSize(doc) ==
  IF doc = <<>> THEN 0
  ELSE Cardinality({<<i, j>> \in (DOMAIN doc) \X (1..4) : j <= Len(doc[i][2])})

\* what the file holds after json.dump(cache, f) from the start of a file that
\* another writer may have filled since this writer opened it
DumpedOver(file, cache) ==
  IF file.valid /\ JsonSize(file.content) > JsonSize(JsonDump(cache))
  THEN TruncatedFile
  ELSE File(cache)

\* json.dump(cache, f) and the close of the file in call i
InvDump(i) ==
  /\ inv[i].pc = "dump"
  /\ \E dumped \in BOOLEAN :
       cacheFile' = IF dumped THEN DumpedOver(cacheFile, inv[i].name_cache)
                    ELSE TruncatedFile
  /\ Step(i, StartsScan(inv[i]))
  /\ UNCHANGED <<shared, dataFile, sequential>>

\* the cache call i scans: the shared object or the one it built or loaded
ScannedCache(i) == IF inv[i].uses_shared THEN shared ELSE inv[i].name_cache

\* one iteration of the loop of find_exact_matches in call i
InvExactStep(i) ==
  /\ inv[i].pc = "exact"
  /\ inv[i].idx <= Len(ScannedCache(i))
  /\ LET me == inv[i]
         entry == ScannedCache(i)[me.idx]
         r == ExactEntry(me.norm_query, entry, me.cfg.exact_match_mode)
     IN  IF r = "error"
         THEN Step(i, [me EXCEPT !.pc = "error", !.error = "InvalidExactMode"])
         ELSE Step(i, [me EXCEPT !.idx = me.idx + 1,
                                 !.exact_matches =
                                    IF r = "match"
                                    THEN Append(me.exact_matches, MatchTuple(entry, NoScore))
                                    ELSE me.exact_matches])
  /\ UNCHANGED <<shared, disk, sequential>>

\* find_exact_matches returns in call i; the fuzzy decision is taken
InvExactReturn(i) ==
  /\ inv[i].pc = "exact"
  /\ inv[i].idx > Len(ScannedCache(i))
  /\ LET me == inv[i]
     IN  IF RunFuzzy(me.cfg, me.exact_matches)
         THEN Step(i, [me EXCEPT !.pc = "fuzzy", !.fuzzy_executed = TRUE, !.idx = 1])
         ELSE Step(i, [me EXCEPT !.pc = "combine"])
  /\ UNCHANGED <<shared, disk, sequential>>

\* one iteration of the loop of find_fuzzy_matches in call i
InvFuzzyStep(i) ==
  /\ inv[i].pc = "fuzzy"
  /\ inv[i].idx <= Len(ScannedCache(i))
  /\ LET me == inv[i]
         entry == ScannedCache(i)[me.idx]
         r == FuzzyEntry(me.norm_query, entry,
                         [threshold |-> me.cfg.threshold, fuzzy_algo |-> me.resolved_algo,
                          match_mode |-> me.cfg.fuzzy_match_mode,
                          agg_fn |-> me.cfg.agg_fn])
     IN  IF r.err # "none"
         THEN Step(i, [me EXCEPT !.pc = "error", !.error = r.err])
         ELSE Step(i, [me EXCEPT !.idx = me.idx + 1,
                                 !.fuzzy_matches =
                                    IF r.keep
                                    THEN AddMatch(me.fuzzy_matches, MatchTuple(entry, r.score))
                                    ELSE me.fuzzy_matches])
  /\ UNCHANGED <<shared, disk, sequential>>

\* find_fuzzy_matches returns in call i
InvFuzzyReturn(i) ==
  /\ inv[i].pc = "fuzzy"
  /\ inv[i].idx > Len(ScannedCache(i))
  /\ Step(i, [inv[i] EXCEPT !.pc = "combine"])
  /\ UNCHANGED <<shared, disk, sequential>>

\* all_matches = exact_matches + fuzzy_matches in call i
InvCombine(i) ==
  /\ inv[i].pc = "combine"
  /\ Step(i, [inv[i] EXCEPT !.pc = "done",
                            !.result = CombineMatches(inv[i].exact_matches,
                                                      inv[i].fuzzy_matches)])
  /\ UNCHANGED <<shared, disk, sequential>>

\* the caller of call i takes its result or its error; no local outlives it
InvReturn(i) ==
  /\ inv[i].pc \in {"done", "error"}
  /\ Step(i, IdleInvocation)
  /\ UNCHANGED <<shared, disk, sequential>>

(***************************************************************************)
(* Specifications.                                                         *)
(***************************************************************************)
\* the configurations a router call is given
RouterConfigs ==
  {c \in [fuzzy : BOOLEAN, threshold : Thresholds, has_cache : BOOLEAN,
          name_cache : RouterCaches, fuzzy_algo : RouterAlgorithmNames,
          fuzzy_match_mode : MatchModes, exact_match_mode : ExactModes,
          agg_fn : AggFns, prefer_fuzzy : BOOLEAN] :
     ~c.has_cache => c.name_cache = <<>>}

\* some caller invokes the router
RouterCall ==
  /\ pc = "idle"
  /\ \E q \in RouterQueries, c \in RouterConfigs : CallRouter(q, c)

Next ==
  \/ RouterCall
  \/ Validate
  \/ ResolveAlgo
  \/ ObtainCache
  \/ LoadCacheFile
  \/ LoadAlternateNames
  \/ ScanCodePoints
  \/ PersistCache
  \/ ExactStep
  \/ ExactReturn
  \/ FuzzyStep
  \/ FuzzyReturn
  \/ Combine
  \/ Return

Spec == Init /\ [][Next]_vars

\* the query strings handed to a matcher directly: raw and normalized ones
MatcherQueries == Queries \cup {normalize(q) : q \in Queries}

\* some caller invokes the exact matcher
ExactCall ==
  /\ pc = "idle"
  /\ \E nq \in MatcherQueries, cache \in Caches, mode \in ExactModes :
       CallExact(nq, cache, mode)

NextExact ==
  \/ ExactCall
  \/ ExactStep
  \/ ExactReturn
  \/ Return

SpecExact == Init /\ [][NextExact]_vars

\* <<algorithm, mode, agg_fn>> of the contexts given to the fuzzy matcher: every
\* algorithm in single mode, every aggregation function in hybrid mode, and an
\* invalid value of each
EngineSettings ==
  (AlgorithmNames \X {"single"} \X {"mean", "bogus"})
    \cup ({"simple_ratio", "Levenshtein", "bogus"} \X {"hybrid"} \X AggFns)
    \cup ({"sequencematcher"} \X {"bogus"} \X {"mean"})

\* some caller invokes the fuzzy matcher
FuzzyCall ==
  /\ pc = "idle"
  /\ \E nq \in {normalize(q) : q \in Queries}, cache \in Caches,
        threshold \in Thresholds, e \in EngineSettings :
       CallFuzzy(nq, cache, threshold, e[1], e[2], e[3])

NextFuzzy ==
  \/ FuzzyCall
  \/ FuzzyStep
  \/ FuzzyReturn
  \/ Return

SpecFuzzy == Init /\ [][NextFuzzy]_vars

\* direct calls of either matcher
NextMatchers ==
  \/ ExactCall
  \/ FuzzyCall
  \/ ExactStep
  \/ ExactReturn
  \/ FuzzyStep
  \/ FuzzyReturn
  \/ Return

SpecMatchers == Init /\ [][NextMatchers]_vars

\* some caller invokes build_name_cache
BuildCall ==
  /\ pc = "idle"
  /\ \E force \in BOOLEAN : CallBuild(force)

NextCache ==
  \/ BuildCall
  \/ LoadCacheFile
  \/ LoadAlternateNames
  \/ ScanCodePoints
  \/ PersistCache
  \/ Return

SpecCache == Init /\ [][NextCache]_vars

\* <<algorithm, mode, agg_fn>> given to compute_similarity: every algorithm name
\* in single mode, every aggregation function in hybrid mode, and an invalid
\* value of each, the aggregation function also in single mode
SimilaritySettings ==
  (AlgorithmNames \X {"single"} \X {"mean"})
    \cup ({"simple_ratio"} \X {"hybrid"} \X AggFns)
    \cup ({"sequencematcher"} \X {"bogus"} \X {"mean"})
    \cup ({"sequencematcher"} \X {"single"} \X {"bogus"})

\* the strings compared: lower-case and upper-case letters and whitespace
FirstStrings == StringsUpTo({"a", "B", " "}, MaxSimLen)

SecondStrings == StringsUpTo({"A", "B", " "}, MaxSimLen)

\* some caller invokes compute_similarity
SimilarityCall ==
  /\ pc = "idle"
  /\ \E a \in FirstStrings, b \in SecondStrings, e \in SimilaritySettings :
       CallSimilarity(a, b, e[1], e[2], e[3])

NextSimilarity ==
  \/ SimilarityCall
  \/ CheckSimilarity
  \/ ScoreSimilarity
  \/ Return

SpecSimilarity == Init /\ [][NextSimilarity]_vars

\* the texts given to normalize: cased letters, a precomposed accented letter,
\* its base letter and the combining mark, and whitespace
Texts == StringsUpTo({"a", "B", "e", "e^", "^", " "}, MaxQueryLen)

\* some caller invokes normalize
NormalizeCall ==
  /\ pc = "idle"
  /\ \E text \in Texts : CallNormalize(text)

NextNormalize ==
  \/ NormalizeCall
  \/ Return

SpecNormalize == Init /\ [][NextNormalize]_vars

\* the configurations of the concurrent calls: a call is given the shared cache
\* (has_cache), with or without fuzzy matching, or it is given no cache
SharedCallConfigs ==
  {[NoConfig EXCEPT !.fuzzy = f, !.fuzzy_algo = "simple_ratio", !.has_cache = TRUE] :
     f \in BOOLEAN}
    \cup {[NoConfig EXCEPT !.fuzzy_algo = "simple_ratio"]}

\* the host shares a cache, or some caller starts a router call on it
SharedCall ==
  \/ \E cache \in RouterCaches : HostShares(cache)
  \/ \E i \in Invocations, q \in RouterQueries, c \in SharedCallConfigs :
       Invoke(i, q, c)

NextConcurrent ==
  \/ SharedCall
  \/ \E i \in Invocations :
       \/ InvValidate(i)
       \/ InvObtainCache(i)
       \/ InvLoadCacheFile(i)
       \/ InvLoadAlternateNames(i)
       \/ InvScanCodePoints(i)
       \/ InvOpenForWrite(i)
       \/ InvDump(i)
       \/ InvExactStep(i)
       \/ InvExactReturn(i)
       \/ InvFuzzyStep(i)
       \/ InvFuzzyReturn(i)
       \/ InvCombine(i)
       \/ InvReturn(i)

SpecConcurrent == Init /\ [][NextConcurrent]_vars

\* the configurations given to find_chars
FindCharsConfigs ==
  {c \in [fuzzy : BOOLEAN, threshold : Thresholds, has_cache : BOOLEAN,
          name_cache : RouterCaches, fuzzy_algo : {"simple_ratio", "bogus"},
          fuzzy_match_mode : {"single", "bogus"}, exact_match_mode : {"word-subset"},
          agg_fn : {"mean"}, prefer_fuzzy : BOOLEAN] :
     ~c.has_cache => c.name_cache = <<>>}

\* some caller invokes find_chars
FindCharsCall ==
  /\ pc = "idle"
  /\ \E q \in RouterQueries, c \in FindCharsConfigs : CallFindChars(q, c)

NextFindChars ==
  \/ FindCharsCall
  \/ StartBody
  \/ Validate
  \/ ResolveAlgo
  \/ ObtainCache
  \/ LoadCacheFile
  \/ LoadAlternateNames
  \/ ScanCodePoints
  \/ PersistCache
  \/ ExactStep
  \/ ExactReturn
  \/ FuzzyStep
  \/ FuzzyReturn
  \/ Combine
  \/ YieldHeader
  \/ NextLine
  \/ DropGenerator

SpecFindChars == Init /\ [][NextFindChars]_vars

(***************************************************************************)
(* Properties.                                                             *)
(***************************************************************************)
Codes(ms) == {ms[i].code : i \in DOMAIN ms}

Visited(p) == p \in Range(history)

RouterDone == caller = "router" /\ pc = "done"

\* q occurs in s as a block of consecutive characters
IsInfix(q, s) ==
  \E i \in 0..Len(s), j \in 1..(Len(s) + 1) :
    SubSeq(s, 1, i) \o q \o SubSeq(s, j, Len(s)) = s

\* the maximal blocks of non-whitespace characters of s
TokenSet(s) ==
  {SubSeq(s, i, j) : <<i, j>> \in
     {t \in (1..Len(s)) \X (1..Len(s)) :
        /\ t[1] <= t[2]
        /\ \A k \in t[1]..t[2] : s[k] # " "
        /\ (t[1] = 1 \/ s[t[1] - 1] = " ")
        /\ (t[2] = Len(s) \/ s[t[2] + 1] = " ")}}

HasAlternate(e) == e.alternate_normalized # None

\* C1: in every router call that passed validation the fuzzy matcher runs iff
\* fuzzy is enabled and (prefer_fuzzy is set or the exact matcher found nothing),
\* and the returned fuzzy_used flag is true exactly when the fuzzy matcher ran,
\* also when it ran and matched nothing.
C1_FuzzyRunsIffDecided ==
  caller = "router" =>
    /\ Visited("fuzzy") =>
         (cfg.fuzzy /\ (cfg.prefer_fuzzy \/ exact_matches = <<>>) /\ fuzzy_executed)
    /\ (pc \in {"combine", "done"}
          /\ cfg.fuzzy /\ (cfg.prefer_fuzzy \/ exact_matches = <<>>)) => Visited("fuzzy")
    /\ fuzzy_executed => Visited("fuzzy")

C1_Witness ==
  /\ RouterDone
  /\ fuzzy_executed
  /\ Visited("fuzzy")
  /\ name_cache # <<>>
  /\ fuzzy_matches = <<>>

\* C2: when fuzzy is disabled, or fuzzy is enabled without prefer_fuzzy and the
\* exact matcher found a match, the router returns exactly the exact-match list
\* (all scores null), the fuzzy matcher never runs and fuzzy_used is false.
C2_ExactOnlyResult ==
  (RouterDone /\ (~cfg.fuzzy \/ (~cfg.prefer_fuzzy /\ exact_matches # <<>>))) =>
    /\ result = find_exact_matches(normalize(query), name_cache, cfg.exact_match_mode)
    /\ \A i \in DOMAIN result : result[i].score = NoScore
    /\ ~Visited("fuzzy")
    /\ ~fuzzy_executed

C2_Witness ==
  /\ RouterDone
  /\ cfg.fuzzy
  /\ ~cfg.prefer_fuzzy
  /\ exact_matches # <<>>
  /\ result = exact_matches

\* C3: with fuzzy and prefer_fuzzy both set, the router returns the exact-match
\* list followed by the complete fuzzy-match list, whether or not an exact match
\* was found, without merging, deduplicating or sorting; a character matched by
\* both passes appears twice, first with a null score, later with its fuzzy
\* score; fuzzy_used is true.
C3_PreferFuzzyConcatenates ==
  (RouterDone /\ cfg.fuzzy /\ cfg.prefer_fuzzy) =>
    /\ result = find_exact_matches(normalize(query), name_cache, cfg.exact_match_mode)
                  \o find_fuzzy_matches(normalize(query), name_cache, Context)
    /\ fuzzy_executed
    /\ \A c \in Codes(exact_matches) \cap Codes(fuzzy_matches) :
         \E i, j \in DOMAIN result :
           /\ i < j
           /\ result[i].code = c /\ result[i].score = NoScore
           /\ result[j].code = c /\ result[j].score # NoScore

C3_Witness ==
  /\ RouterDone
  /\ cfg.fuzzy
  /\ cfg.prefer_fuzzy
  /\ \E i, j \in DOMAIN result :
       i < j /\ result[i].code = result[j].code
       /\ result[i].score = NoScore /\ result[j].score # NoScore

ValidationErrors == {"EmptyQuery", "InvalidMode", "InvalidAlgorithm"}

InvalidConfig(c) ==
  \/ resolve_algorithm_name(c.fuzzy_algo) = "None"
  \/ c.fuzzy_match_mode \notin VALID_FUZZY_MATCH_MODES
  \/ c.agg_fn \notin {"mean", "median", "max", "min"}
  \/ c.exact_match_mode \notin VALID_EXACT_MATCH_MODES

\* C5: every router call whose configuration holds an invalid algorithm, fuzzy
\* match mode, aggregation function or exact-match mode raises a configuration
\* error, and raises it before any cache entry is scanned, whatever the cache
\* holds and whatever the fuzzy flags are.
C5_ConfigErrorBeforeAnyScan ==
  (caller = "router" /\ InvalidConfig(cfg)) =>
    (scanned = 0 /\ pc \notin {"combine", "done"})

\* C6: a router call with an unrecognized exact_match_mode raises its error
\* without having changed the name cache, the cache file or the alternate-name
\* data file, also when the call had to obtain the cache itself.
C6_ExactModeErrorChangesNothing ==
  (caller = "router" /\ error = "InvalidExactMode") =>
    (disk = diskAtCall /\ (cfg.has_cache /\ cfg.name_cache # <<>> => name_cache = cfg.name_cache))

\* C7: in substring mode the exact matcher returns an entry iff the query is a
\* literal substring of the entry's normalized name or, when the entry has one,
\* of its normalized alternate name.
C7_SubstringMode ==
  (caller = "exact" /\ pc = "done" /\ cfg.exact_match_mode = "substring") =>
    \A i \in DOMAIN name_cache :
      (name_cache[i].code \in Codes(result)) <=>
        \/ IsInfix(norm_query, name_cache[i].normalized)
        \/ HasAlternate(name_cache[i])
             /\ IsInfix(norm_query, name_cache[i].alternate_normalized)

C7_Witness ==
  /\ caller = "exact"
  /\ pc = "done"
  /\ cfg.exact_match_mode = "substring"
  /\ \E i \in DOMAIN name_cache :
       /\ name_cache[i].code \in Codes(result)
       /\ ~IsInfix(norm_query, name_cache[i].normalized)
  /\ \E i \in DOMAIN name_cache : name_cache[i].code \notin Codes(result)

\* C8: in word-subset mode the exact matcher returns an entry iff the set of
\* whitespace-separated tokens of the query is a subset of the union of the
\* tokens of the normalized name and of the normalized alternate name (if any);
\* so two queries with the same token set match identical entries.
C8_WordSubsetMode ==
  (caller = "exact" /\ pc = "done" /\ cfg.exact_match_mode = "word-subset") =>
    /\ \A i \in DOMAIN name_cache :
         (name_cache[i].code \in Codes(result)) <=>
           TokenSet(norm_query) \subseteq
             (TokenSet(name_cache[i].normalized)
                \cup (IF HasAlternate(name_cache[i])
                      THEN TokenSet(name_cache[i].alternate_normalized) ELSE {}))
    /\ \A q2 \in MatcherQueries :
         TokenSet(q2) = TokenSet(norm_query) =>
           find_exact_matches(q2, name_cache, "word-subset") = result

C8_Witness ==
  /\ caller = "exact"
  /\ pc = "done"
  /\ cfg.exact_match_mode = "word-subset"
  /\ \E i \in DOMAIN name_cache :
       /\ name_cache[i].code \in Codes(result)
       /\ HasAlternate(name_cache[i])
       /\ ~(TokenSet(norm_query) \subseteq TokenSet(name_cache[i].normalized))
       /\ ~(TokenSet(norm_query) \subseteq TokenSet(name_cache[i].alternate_normalized))
  /\ \E q2 \in MatcherQueries : q2 # norm_query /\ TokenSet(q2) = TokenSet(norm_query)

\* the larger of the score against the name and the score against the alternate
EffectiveScore(nq, e, ctx) ==
  LET score1 == compute_similarity(nq, e.normalized, ctx.fuzzy_algo, ctx.match_mode,
                                   ctx.agg_fn).score
      score2 == compute_similarity(nq, e.alternate_normalized, ctx.fuzzy_algo,
                                   ctx.match_mode, ctx.agg_fn).score
  IN  IF HasAlternate(e) /\ e.alternate_normalized # <<>> /\ FLeq(score1, score2)
      THEN score2 ELSE score1

\* C9: the fuzzy matcher gives every entry the maximum of its score against the
\* name and against the alternate name, skips no entry for lack of a score and
\* keeps the entry iff that score >= threshold; threshold 0 returns every entry,
\* threshold 1 exactly the entries whose score is 1.
C9_KeepsIffScoreReachesThreshold ==
  (caller = "fuzzy" /\ pc = "done" /\ Strip(norm_query) # <<>>) =>
    \A i \in DOMAIN name_cache :
      (name_cache[i].code \in Codes(result)) <=>
        FLeq(cfg.threshold, EffectiveScore(norm_query, name_cache[i], Context))

\* C10: for a fixed query, cache, algorithm, mode and aggregation function, the
\* entries returned at threshold t1 include those returned at threshold t2
\* whenever t1 <= t2.
C10_ThresholdMonotone ==
  (caller = "fuzzy" /\ pc = "done") =>
    \A t1 \in Thresholds :
      FLeq(t1, cfg.threshold) =>
        Codes(result) \subseteq
          Codes(find_fuzzy_matches(norm_query, name_cache,
                                   [Context EXCEPT !.threshold = t1]))

C10_Witness ==
  /\ caller = "fuzzy"
  /\ pc = "done"
  /\ result # <<>>
  /\ cfg.threshold # Zero
  /\ \E t1 \in Thresholds :
       /\ FLeq(t1, cfg.threshold)
       /\ Codes(result) # Codes(find_fuzzy_matches(norm_query, name_cache,
                                                   [Context EXCEPT !.threshold = t1]))

\* _resolve_matches as a function of the query, the configuration and the cache
\* it scans, for a call that raises nothing
RouterResult(q, c, cache) ==
  LET nq == normalize(q)
      exact == find_exact_matches(nq, cache, c.exact_match_mode)
      ctx == [threshold |-> c.threshold,
              fuzzy_algo |-> resolve_algorithm_name(c.fuzzy_algo),
              match_mode |-> c.fuzzy_match_mode, agg_fn |-> c.agg_fn]
      fuzzy == IF RunFuzzy(c, exact) THEN find_fuzzy_matches(nq, cache, ctx) ELSE <<>>
  IN  CombineMatches(exact, fuzzy)

\* the other case of a cased character
SwapCase(c) ==
  CASE c = "a" -> "A"
    [] c = "A" -> "a"
    [] c = "b" -> "B"
    [] c = "B" -> "b"
    [] OTHER -> c

\* the strings that differ from q only in the case of letters
CaseVariants(q) ==
  {v \in [1..Len(q) -> {q[i] : i \in DOMAIN q} \cup {SwapCase(q[i]) : i \in DOMAIN q}] :
     \A i \in DOMAIN q : v[i] \in {q[i], SwapCase(q[i])}}

\* C11: the match list a router call returns is the match list of every case
\* variant of its query under the same configuration and cache.
C11_CaseInsensitiveQuery ==
  RouterDone =>
    \A v \in CaseVariants(query) : result = RouterResult(v, cfg, name_cache)

C11_Witness ==
  /\ RouterDone
  /\ ~fuzzy_executed
  /\ result # <<>>
  /\ query # normalize(query)
  /\ \E v \in CaseVariants(query) : v # query

\* compatibility decomposition (NFKD): every precomposed character is replaced
\* by its base character and combining mark
RECURSIVE CompatibilityDecompose(_)
CompatibilityDecompose(s) ==
  IF s = <<>> THEN <<>>
  ELSE (CASE Head(s) = "e^" -> <<"e", "^">>
          [] Head(s) = "E^" -> <<"E", "^">>
          [] OTHER -> <<Head(s)>>) \o CompatibilityDecompose(Tail(s))

\* C12: normalize(text) is the uppercase of the compatibility decomposition of
\* text, for every text, and raises nothing.
C12_NormalizeIsUpperNFKD ==
  (caller = "normalize" /\ pc = "done") =>
    (error = "none" /\ norm_query = Upper(CompatibilityDecompose(query)))

CacheDone == caller = "cache" /\ pc = "done"

\* the normalized fields of a cache entry are the normalized forms of its names
EntryConsistent(e) ==
  /\ e.normalized = normalize(e.original)
  /\ \/ e.alternate = None /\ e.alternate_normalized = None
     \/ /\ e.alternate # None
        /\ e.alternate_normalized # None
        /\ e.alternate_normalized = normalize(e.alternate)

\* C13: every entry of a cache returned by build_name_cache, built or loaded,
\* has normalized = normalize(original) and has alternate and
\* alternate_normalized both absent or both present with
\* alternate_normalized = normalize(alternate).
C13_EntriesAreNormalized ==
  CacheDone => \A i \in DOMAIN name_cache : EntryConsistent(name_cache[i])

C13_Witness ==
  /\ CacheDone
  /\ cacheAccess = "loaded"
  /\ \E i, j \in DOMAIN name_cache :
       /\ name_cache[i].alternate # None
       /\ name_cache[i].alternate_normalized # name_cache[i].alternate
       /\ name_cache[j].alternate = None

\* the call went through the rebuild: alternate names, code point scan, persist
Rebuilt == Visited("alternates") \/ Visited("scan") \/ Visited("persist")

\* C14: build_name_cache rebuilds iff force_rebuild is set or no file exists at
\* the path; otherwise it loads no alternate names, scans no code point, leaves
\* the files as they are and returns the deserialized content of the file; the
\* file a successful persist leaves deserializes to the mapping just built.
C14_RebuildIffForcedOrNoFile ==
  (caller = "cache" /\ pc # "load") =>
    /\ Rebuilt <=> (force_rebuild \/ ~diskAtCall[1].exists)
    /\ ~Rebuilt =>
         /\ disk = diskAtCall
         /\ alternate_names = NoAlternateNames
         /\ pc = "done" => name_cache = JsonLoad(cacheFile.content)
         /\ pc = "done" =>
              name_cache \in {BuildCache(ParsedAlternateNames), BuildCache(NoAlternateNames)}
    /\ (pc = "done" /\ "Cache written" \in messages) =>
         (cacheFile.exists /\ JsonLoad(cacheFile.content) = name_cache)

C14_Witness ==
  /\ CacheDone
  /\ cacheAccess = "loaded"
  /\ dataFile
  /\ name_cache = BuildCache(NoAlternateNames)

\* the position the call was at before its current one
Previous == IF Len(history) >= 2 THEN history[Len(history) - 1] ELSE "idle"

\* C15: whatever the write of the freshly built cache does, build_name_cache
\* returns the complete mapping it built; when the file does not hold that
\* mapping afterwards, the failure was reported.
C15_PersistFailureStillReturns ==
  (caller = "cache" /\ Previous = "persist") =>
    /\ pc = "done"
    /\ error = "none"
    /\ name_cache = BuildCache(alternate_names)
    /\ cacheFile # File(name_cache) => "Failed to write cache" \in messages

C15_Witness ==
  /\ CacheDone
  /\ Previous = "persist"
  /\ cacheFile = TruncatedFile
  /\ "Failed to write cache" \in messages
  /\ \E i \in DOMAIN name_cache : name_cache[i].alternate # None

\* C16: no failure to load the alternate-name source aborts the build: after
\* load_alternate_names the build goes on, and when no table could be loaded
\* the cache is built with no alternate field in any entry.
C16_AlternateSourceFailureIsolated ==
  (caller = "cache" /\ Previous = "alternates") =>
    /\ pc # "error"
    /\ alternate_names \in {ParsedAlternateNames, NoAlternateNames}

\* C17: no router call is aborted by the load of the cache file: a file that
\* cannot be read or parsed makes build_name_cache rebuild the cache.
C17_UnreadableCacheFileRebuilds ==
  (caller = "router" /\ Previous = "load") =>
    /\ pc # "error"
    /\ (pc = "exact" /\ ~diskAtCall[1].valid) => Rebuilt

\* a compute_similarity call whose algorithm name and mode are valid
ValidSimilarityCall ==
  /\ caller = "similarity"
  /\ resolve_algorithm_name(cfg.fuzzy_algo) # "None"
  /\ cfg.fuzzy_match_mode \in VALID_FUZZY_MATCH_MODES

\* C19: a compute_similarity call with a valid algorithm and mode whose two
\* arguments are identical once stripped and upper-cased returns exactly 1 and
\* never reaches the scoring algorithms, whatever the aggregation function.
C19_IdenticalStringsShortcut ==
  (ValidSimilarityCall /\ pc # "similarity"
     /\ Upper(Strip(s1)) = Upper(Strip(s2))) =>
    (pc = "done" /\ similarity = One /\ ~Visited("score"))

C19_Witness ==
  /\ ValidSimilarityCall
  /\ pc = "done"
  /\ cfg.fuzzy_match_mode = "hybrid"
  /\ s1 # s2
  /\ Len(Strip(s1)) > 1
  /\ Upper(Strip(s1)) = Upper(Strip(s2))
  /\ similarity = One

\* the four base algorithms, directly or combined by the hybrid score
UsesBaseAlgorithms ==
  \/ cfg.fuzzy_match_mode = "hybrid"
  \/ resolved_algo \in Range(BaseAlgorithms) \cup {"hybrid_score"}

\* C20: the score each of the four base algorithms, and the hybrid score under
\* each aggregation function, gives to (a, b) is the score it gives to (b, a).
C20_SimilarityIsSymmetric ==
  (ValidSimilarityCall /\ pc = "done" /\ Visited("score") /\ UsesBaseAlgorithms) =>
    similarity = ScoreWith(resolved_algo, Upper(Strip(s2)), Upper(Strip(s1)),
                           cfg.fuzzy_match_mode, cfg.agg_fn).score

C20_Witness ==
  /\ ValidSimilarityCall
  /\ pc = "done"
  /\ Visited("score")
  /\ cfg.fuzzy_match_mode = "hybrid"
  /\ cfg.agg_fn = "median"
  /\ Len(Strip(s1)) < Len(Strip(s2))
  /\ similarity \notin {Zero, One}

\* what build_name_cache() can return or raise when it runs alone on the files
\* d: the file's content or a failure to read or parse it when the file exists,
\* else a freshly built cache or a failure of the alternate-name source
AloneCaches(d) ==
  IF d[1].exists
  THEN {[error |-> "OSError", cache |-> <<>>]}
         \cup (IF d[1].valid
               THEN {[error |-> "none", cache |-> JsonLoad(d[1].content)]}
               ELSE {[error |-> "JSONDecodeError", cache |-> <<>>]})
  ELSE {[error |-> "none", cache |-> BuildCache(ParsedAlternateNames)],
        [error |-> "UnicodeDecodeError", cache |-> <<>>],
        [error |-> "OSError", cache |-> <<>>]}
         \cup (IF d[2] THEN {}
               ELSE {[error |-> "none", cache |-> BuildCache(NoAlternateNames)]})

\* the outcomes of _resolve_matches(q, c) when it runs alone on the files d,
\* for a configuration whose modes, algorithm and aggregation are valid
AloneOutcomes(q, c, d) ==
  IF QueryIsEmpty(q) THEN {[error |-> "EmptyQuery", result |-> <<>>]}
  ELSE {IF k.error # "none" THEN [error |-> k.error, result |-> <<>>]
        ELSE [error |-> "none", result |-> RouterResult(q, c, k.cache)] :
          k \in IF c.has_cache /\ c.name_cache # <<>>
                THEN {[error |-> "none", cache |-> c.name_cache]}
                ELSE AloneCaches(d)}

\* C18: while router calls run concurrently on one shared cache, the cache stays
\* the object each call was given, and every call that ends returns a result,
\* or raises an error, that the same call can produce when it runs alone.
C18_SharedCacheInterleavings ==
  \A i \in {k \in Invocations : inv[k].cfg.has_cache} :
    /\ inv[i].pc # "idle" => inv[i].cfg.name_cache = shared
    /\ inv[i].pc \in {"done", "error"} =>
         [error |-> inv[i].error, result |-> inv[i].result]
           \in AloneOutcomes(inv[i].query, inv[i].cfg, inv[i].disk_at_call)

\* the same, for the calls that use the cache they were given
SharedCacheUsed ==
  \A i \in {k \in Invocations : inv[k].cfg.has_cache} :
    /\ inv[i].pc # "idle" => inv[i].cfg.name_cache = shared
    /\ (inv[i].pc \in {"done", "error"} /\ shared # <<>>) =>
         [error |-> inv[i].error, result |-> inv[i].result]
           \in AloneOutcomes(inv[i].query, inv[i].cfg, inv[i].disk_at_call)

\* a single router call ends as AloneOutcomes says
AloneOutcomesOfRouter ==
  (caller = "router" /\ pc \in {"done", "error"}
     /\ cfg.fuzzy_match_mode \in VALID_FUZZY_MATCH_MODES
     /\ resolve_algorithm_name(cfg.fuzzy_algo) # "None"
     /\ cfg.exact_match_mode \in VALID_EXACT_MATCH_MODES
     /\ cfg.agg_fn \in {"mean", "median", "max", "min"}) =>
    [error |-> error, result |-> result] \in AloneOutcomes(query, cfg, diskAtCall)

\* a compute_similarity call in hybrid mode with a valid aggregation function
HybridCall ==
  /\ ValidSimilarityCall
  /\ cfg.fuzzy_match_mode = "hybrid"
  /\ cfg.agg_fn \in {"mean", "median", "max", "min"}

\* the four base scores of the stripped, upper-cased arguments
BaseScores == [i \in 1..4 |-> BaseScore(BaseAlgorithms[i], Upper(Strip(s1)), Upper(Strip(s2)))]

\* sum of weight * score over the four algorithms, the weights being hundredths
WeightedMean(xs) ==
  FMul(<<1, 100>>,
       FSum([i \in 1..4 |-> FMul(<<FUZZY_HYBRID_WEIGHTS[BaseAlgorithms[i]], 1>>, xs[i])]))

\* the median of four values: half of what is left of their sum without the
\* largest and the smallest
MedianOfFour(xs) ==
  LET hi == FMax(Range(xs))
      lo == FMin(Range(xs))
      total == FSum(xs)
      outer == FAdd(hi, lo)
  IN  Frac(total[1] * outer[2] - outer[1] * total[2], 2 * total[2] * outer[2])

Aggregate(agg_fn, xs) ==
  CASE agg_fn = "mean" -> WeightedMean(xs)
    [] agg_fn = "median" -> MedianOfFour(xs)
    [] agg_fn = "max" -> CHOOSE x \in Range(xs) : \A y \in Range(xs) : FLeq(y, x)
    [] agg_fn = "min" -> CHOOSE x \in Range(xs) : \A y \in Range(xs) : FLeq(x, y)

InUnitInterval(x) == FLeq(Zero, x) /\ FLeq(x, One)

\* C21 as stated: every hybrid-mode call with a valid aggregation function
\* returns the aggregate of the four base scores (the mean weighted by the
\* configured weights, which sum to 1; the median, max and min unweighted), and
\* the score lies in [0, 1].
C21_HybridIsAggregateOfBaseScores ==
  (HybridCall /\ pc = "done") =>
    /\ FSum([i \in 1..4 |-> <<FUZZY_HYBRID_WEIGHTS[BaseAlgorithms[i]], 100>>]) = One
    /\ similarity = Aggregate(cfg.agg_fn, BaseScores)
    /\ InUnitInterval(similarity)

\* C21 amended: the same for arguments that differ once stripped and
\* upper-cased; for arguments that are then identical the score is exactly 1.
C21_HybridIsAggregateUnlessIdentical ==
  (HybridCall /\ pc = "done") =>
    /\ FSum([i \in 1..4 |-> <<FUZZY_HYBRID_WEIGHTS[BaseAlgorithms[i]], 100>>]) = One
    /\ similarity = IF Upper(Strip(s1)) = Upper(Strip(s2)) THEN One
                    ELSE Aggregate(cfg.agg_fn, BaseScores)
    /\ InUnitInterval(similarity)

C21_Witness ==
  /\ HybridCall
  /\ pc = "done"
  /\ Visited("score")
  /\ cfg.agg_fn = "mean"
  /\ similarity = WeightedMean(BaseScores)
  /\ similarity # FMul(FSum(BaseScores), <<1, 4>>)
  /\ Cardinality(Range(BaseScores)) >= 3

\* number of times the call has entered position p
Count(p) == Cardinality({i \in DOMAIN history : history[i] = p})

\* a router call that got past _validate_query and the algorithm resolution
PassedValidation == caller = "router" /\ Visited("cache")

\* the exact pass runs once and is over before the fuzzy pass, which runs at most
\* once; a call that is done has visited each entry once per pass
PassesInOrder ==
  /\ Count("exact") <= 1
  /\ Count("fuzzy") <= 1
  /\ \A i, j \in DOMAIN history :
       (history[i] = "exact" /\ history[j] \in {"fuzzy", "combine", "done"}) => i < j
  /\ \A i, j \in DOMAIN history :
       (history[i] = "fuzzy" /\ history[j] \in {"combine", "done"}) => i < j
  /\ pc \in {"fuzzy", "combine", "done"} =>
       (Count("exact") = 1 /\ scanned >= Len(name_cache))
  /\ pc \in {"combine", "done"} =>
       (fuzzy_executed <=> Count("fuzzy") = 1)
  /\ pc = "done" =>
       scanned = Len(name_cache) * (IF fuzzy_executed THEN 2 ELSE 1)

\* C22: every router call that passed validation goes not-started ->
\* exact-evaluated -> (fuzzy-skipped or fuzzy-evaluated) -> done: the exact pass
\* runs exactly once and ends before the fuzzy pass starts, the fuzzy pass runs
\* at most once, no entry is visited again, and the call does not end otherwise
\* than in done.
C22_RouterStateMachine ==
  PassedValidation => (PassesInOrder /\ pc # "error")

\* the order of the passes alone
RouterPassesInOrder == caller = "router" => PassesInOrder

\* a validated call whose configuration is valid throughout and that was given
\* a cache to scan does not raise
ValidCallWithCacheNeverRaises ==
  (PassedValidation /\ ~InvalidConfig(cfg) /\ cfg.has_cache /\ cfg.name_cache # <<>>) =>
    pc # "error"

\* C23: no build_name_cache invocation reads the cache file while another
\* invocation has it open for writing, so no load sees a partially written
\* file, whatever the interleaving of the router calls that build the cache.
C23_NoLoadDuringWrite ==
  \A i \in Invocations : ~inv[i].read_in_write

\* the algorithm name, the mode or the aggregation function of the call is unknown
UnknownSetting ==
  \/ resolve_algorithm_name(cfg.fuzzy_algo) = "None"
  \/ cfg.fuzzy_match_mode \notin VALID_FUZZY_MATCH_MODES
  \/ cfg.agg_fn \notin {"mean", "median", "max", "min"}

\* C24: a compute_similarity call with an unknown algorithm name, mode or
\* aggregation function raises a configuration error and never reaches the
\* scoring, for every pair of strings and every mode, identical strings included.
C24_UnknownSettingsRaiseBeforeScoring ==
  (caller = "similarity" /\ UnknownSetting) =>
    /\ ~Visited("score")
    /\ pc # "done"
    /\ pc = "error" => error \in {"InvalidAlgorithm", "InvalidMode", "InvalidAgg"}

\* the same for the algorithm name and the mode alone
UnknownAlgorithmOrModeRaisesFirst ==
  (caller = "similarity" /\ ~ValidSimilarityCall) =>
    /\ ~Visited("score")
    /\ pc # "done"
    /\ pc = "error" => error \in {"InvalidAlgorithm", "InvalidMode"}

\* a direct call of a matcher has returned
MatcherDone == caller \in {"exact", "fuzzy"} /\ pc = "done"

\* the positions of the scanned cache whose entry the matcher keeps
KeptPositions ==
  {i \in DOMAIN name_cache :
     IF caller = "exact"
     THEN ExactEntry(norm_query, name_cache[i], cfg.exact_match_mode) = "match"
     ELSE FuzzyEntry(norm_query, name_cache[i], Context).keep}

\* the k-th smallest element of a set of numbers
KthSmallest(S, k) == CHOOSE x \in S : Cardinality({y \in S : y < x}) = k - 1

\* C25: the list a matcher returns holds one match per kept entry, in the order
\* in which the cache iterates (for a built cache, ascending code point):
\* nothing is dropped to cap the count, exact matches carry the null score, and
\* fuzzy matches carry their score and are not reordered by it.
C25_MatchesInCacheOrder ==
  /\ \A i, j \in DOMAIN BuildCache(ParsedAlternateNames) :
       i < j => BuildCache(ParsedAlternateNames)[i].code
                  < BuildCache(ParsedAlternateNames)[j].code
  /\ MatcherDone =>
       /\ Len(result) = Cardinality(KeptPositions)
       /\ \A k \in DOMAIN result :
            LET e == name_cache[KthSmallest(KeptPositions, k)]
            IN  /\ result[k].code = e.code
                /\ result[k].name = e.original
                /\ result[k].score = IF caller = "exact" THEN NoScore
                                     ELSE FuzzyEntry(norm_query, e, Context).score

\* a fuzzy call returned two matches, the lower score and the higher code point
\* first
C25_Witness ==
  /\ MatcherDone
  /\ caller = "fuzzy"
  /\ Len(result) = 2
  /\ result[1].code > result[2].code
  /\ result[1].score # result[2].score
  /\ FLeq(result[1].score, result[2].score)

\* the router call neither loaded nor built the on-disk cache and, once it
\* scans, scans the mapping of its configuration
UsesSuppliedCache ==
  /\ ~Visited("load")
  /\ cacheAccess \in {"none", "supplied"}
  /\ disk = diskAtCall
  /\ pc \in {"exact", "fuzzy", "combine", "done"} => name_cache = cfg.name_cache

\* C26: a router call whose configuration carries a name cache, empty or not,
\* scans exactly that mapping and never loads or builds the on-disk cache; the
\* on-disk cache is loaded or built only by calls that were given no cache.
C26_SuppliedCacheIsScanned ==
  (caller = "router" /\ cfg.has_cache) => UsesSuppliedCache

\* the same for the supplied caches that are not empty
SuppliedNonEmptyCacheIsScanned ==
  (caller = "router" /\ cfg.has_cache /\ cfg.name_cache # <<>>) => UsesSuppliedCache

\* the query with one whitespace character added in front, behind or both
PaddedVariants(q) == {<<" ">> \o q, q \o <<" ">>, <<" ">> \o q \o <<" ">>}

\* C27: in both exact-match modes the exact matches a router call found are the
\* exact matches of its query with whitespace added in front of it or behind it.
C27_PaddingKeepsExactMatches ==
  (RouterDone /\ cfg.exact_match_mode \in VALID_EXACT_MATCH_MODES) =>
    \A v \in PaddedVariants(query) :
      exact_matches = find_exact_matches(normalize(v), name_cache, cfg.exact_match_mode)

\* the same in word-subset mode alone
PaddingKeepsWordSubsetMatches ==
  (RouterDone /\ cfg.exact_match_mode = "word-subset") =>
    \A v \in PaddedVariants(query) :
      exact_matches = find_exact_matches(normalize(v), name_cache, cfg.exact_match_mode)

\* nothing of the body of find_chars has run
NothingDone ==
  /\ error = "none"
  /\ scanned = 0
  /\ cacheAccess = "none"
  /\ disk = diskAtCall
  /\ norm_query = <<>>
  /\ resolved_algo = "None"
  /\ result = <<>>
  /\ lines = <<>>

ScoredRow(line) == line.kind = "row" /\ line.score_str # <<>>

\* C29: whenever a row that find_chars has yielded carries a score, the header
\* line it yielded first has the SCORE column, whatever fuzzy and prefer_fuzzy
\* are.
C29_ScoredRowsHaveScoreColumn ==
  (caller = "find_chars" /\ \E i \in DOMAIN lines : ScoredRow(lines[i])) =>
    (lines[1].kind = "header" /\ "SCORE" \in Range(lines[1].columns))

\* the same for the calls that do not mix unscored and scored matches
ScoreColumnUnlessMixed ==
  (caller = "find_chars" /\ ~(cfg.prefer_fuzzy /\ exact_matches # <<>>)
     /\ \E i \in DOMAIN lines : ScoredRow(lines[i])) =>
    (lines[1].kind = "header" /\ "SCORE" \in Range(lines[1].columns))

\* C30: in the list a router call returns every entry with a null score comes
\* before every entry with a score, every score is at least the configured
\* threshold, and a scored entry occurs only if fuzzy_used is true.
C30_NullScoresFirstScoresAboveThreshold ==
  RouterDone =>
    /\ \A i, j \in DOMAIN result :
         (i < j /\ result[j].score = NoScore) => result[i].score = NoScore
    /\ \A i \in DOMAIN result :
         result[i].score # NoScore => FLeq(cfg.threshold, result[i].score)
    /\ (\E i \in DOMAIN result : result[i].score # NoScore) => fuzzy_executed

C30_Witness ==
  /\ RouterDone
  /\ cfg.threshold # Zero
  /\ Len(result) >= 3
  /\ result[1].score = NoScore
  /\ result[Len(result)].score # NoScore
  /\ Len(fuzzy_matches) < Len(name_cache)

====
